---- MODULE Spec2Model ----
(***************************************************************************)
(* Model of the two concurrency primitives of the repository:              *)
(*   - worker::WorkerPool          (src/src/worker/WorkerPool.h)           *)
(*   - resource_pool::ResourcePool (src/src/resource/resource_handle.h)    *)
(* Every thread is a process with a program counter; one action is one     *)
(* atomic step of the code (a critical section that reads no atomic twice, *)
(* an atomic operation, or a user callback).                               *)
(***************************************************************************)
EXTENDS Integers, Sequences, FiniteSets, TLC

\* ---------------------------------------------------------------- bounds
NWorkers == 2
Parallelism == 1
MaxQueue == 1
NProducers == 2
NTasks == 2
NStoppers == 2

Workers == 1..NWorkers
Producers == 1..NProducers
Stoppers == 1..NStoppers
Tasks == 1..NTasks

\* WorkerPool::normalize
normalize(opts) ==
    LET tc == IF opts.thread_count = 0 THEN 1 ELSE opts.thread_count
        p1 == IF opts.parallelism = 0 THEN tc ELSE opts.parallelism
        p2 == IF p1 = 0 THEN 1 ELSE p1
    IN [thread_count |-> tc, parallelism |-> p2, max_queue |-> opts.max_queue]

VARIABLES
    \* ---- WorkerPool members
    options_,            \* const Options, normalized by the constructor
    is_stopping_,        \* std::atomic<bool>
    drain_on_shutdown_,  \* bool, written under mutex_
    queue_,              \* std::deque<Task>, a sequence of task ids
    permits_,            \* std::counting_semaphore<>
    active_,             \* std::atomic<size_t>
    mutex_,              \* 0 = free, p = held by producer p across steps
    \* ---- worker threads
    wpc,                 \* position of each worker in worker_loop
    wtask,               \* the task a worker holds (0 = none)
    \* ---- producer threads (try_post / post / submit callers)
    ppc,                 \* position of each producer
    pkind,               \* kind of the call in progress
    ptask,               \* task of the call in progress (0 = none)
    \* ---- threads calling shutdown
    spc,                 \* position of each shutdown caller
    sdrain,              \* the drain argument
    swin,                \* TRUE when this caller's compare_exchange succeeded
    \* ---- tasks
    tstate,              \* where each task is
    execs,               \* how many times each task has started executing
    future,              \* shared state of the std::future of a submit
    \* ---- observations
    enq_after_stop,      \* a task was appended while is_stopping_ was TRUE
    late_reject,         \* a call that began after a shutdown returned was rejected
    blocked_accepted,    \* a post that had waited in space_cv_.wait enqueued its task
    blocked_at_stop,     \* tasks whose post was in space_cv_.wait when the flag was set
    taken_at_clear,      \* tasks dequeued before shutdown's critical section (-1: not yet)
    accepted_by          \* per calling thread, the tasks it got accepted, in order

VARIABLES
    \* ---- resource_pool::ResourcePool members
    available_,          \* std::vector<std::unique_ptr<T>>, resource ids, back = last
    total_created_,      \* size_t
    shutdown_,           \* bool
    \* ---- client threads of the resource pool
    cpc,                 \* position of each client
    cres,                \* the resource a client holds or handles (0 = none)
    \* ---- the resources themselves
    produced,            \* the resources factory_ has returned so far
    destroyed,           \* per resource, the number of calls of destroyer_ on it
    \* ---- the thread that calls shutdownAndWait
    swait,               \* its position, whether its deadline passed, its result
    \* ---- the pool object
    pool_life,           \* "alive", "destroyed", or "used_after_free"
    \* ---- the clock
    late                 \* the clients whose acquire deadline has passed

rpvars == <<available_, total_created_, shutdown_, cpc, cres, produced,
            destroyed, swait, pool_life, late>>

VARIABLES
    \* ---- resource_pool::ResourceHandle objects
    handles,             \* per handle object: its lifetime, resource_, return_func_
    returned             \* per borrowed resource, the calls of the return function

hvars == <<handles, returned>>

VARIABLES
    \* ---- threads inside calls of the pools, for the locking discipline
    lpc,                 \* per thread, the position inside the call
    lowner               \* per mutex ("rp", "wp"), the thread that owns it (0: free)

lvars == <<lpc, lowner>>

VARIABLES
    \* ---- resource::ResourcePool members (resource_pool.hpp)
    idle_,               \* std::vector<UniquePtr>, resource ids, back = last
    total_,              \* size_t
    shutting_down_,      \* bool
    \* ---- client threads of that pool
    shpc,                \* position of each client
    shkind,              \* the call it is in: "acquire", "timed", "try"
    shres,               \* the resource it holds or handles (0 = none)
    cycles               \* acquire/release cycles a client has completed

spvars == <<idle_, total_, shutting_down_, shpc, shkind, shres, cycles>>

wpvars == <<options_, is_stopping_, drain_on_shutdown_, queue_, permits_,
            active_, mutex_,
            wpc, wtask, ppc, pkind, ptask, spc, sdrain, swin,
            tstate, execs, future,
            enq_after_stop, late_reject, blocked_accepted, blocked_at_stop,
            taken_at_clear, accepted_by>>

vars == <<wpvars, rpvars, hvars, lvars, spvars>>

Kinds == {"try_post", "post", "submit"}

\* ------------------------------------------------------------ helpers

\* ProducerLoad that never sees the flag
ProducerLoadNoCheck == FALSE

\* is_stopping_.load(acquire) as read by try_post / post / submit and the
\* enqueue helpers
ProducerLoad == is_stopping_

\* std::condition_variable::notify_one on space_cv_: one waiter, if any
NotifyOneSpace(pp) ==
    LET ws == {p \in Producers : pp[p] = "wait"}
    IN IF ws = {} THEN {pp} ELSE {[pp EXCEPT ![p] = "pred"] : p \in ws}

\* notify_one on task_cv_
NotifyOneTask(wp) ==
    LET ws == {w \in Workers : wp[w] = "wait"}
    IN IF ws = {} THEN {wp} ELSE {[wp EXCEPT ![w] = "lock"] : w \in ws}

\* notify_all on space_cv_ / task_cv_
NotifyAllSpace(pp) == [p \in Producers |-> IF pp[p] = "wait" THEN "pred" ELSE pp[p]]
NotifyAllTask(wp) == [w \in Workers |-> IF wp[w] = "wait" THEN "lock" ELSE wp[w]]

AnyShutdownReturned == \E s \in Stoppers : spc[s] = "ret"

Dequeued == {t \in Tasks : tstate[t] \in {"taken", "running", "done"}}

\* ------------------------------------------------------------ Init
\* WorkerPool::WorkerPool(Options), lines 82-88, and start_threads, 246-268:
\* thread_count workers are started; worker ids beyond thread_count stand for
\* no thread at all
WPInitWith(opts) ==
    /\ options_ = normalize(opts)
    /\ is_stopping_ = FALSE
    /\ drain_on_shutdown_ = TRUE
    /\ queue_ = <<>>
    /\ permits_ = options_.parallelism
    /\ active_ = 0
    /\ mutex_ = 0
    /\ wpc = [w \in Workers |-> IF w <= options_.thread_count THEN "lock" ELSE "exit"]
    /\ wtask = [w \in Workers |-> 0]
    /\ ppc = [p \in Producers |-> "idle"]
    /\ pkind = [p \in Producers |-> "post"]
    /\ ptask = [p \in Producers |-> 0]
    /\ spc = [s \in Stoppers |-> "idle"]
    /\ sdrain = [s \in Stoppers |-> TRUE]
    /\ swin = [s \in Stoppers |-> FALSE]
    /\ tstate = [t \in Tasks |-> "new"]
    /\ execs = [t \in Tasks |-> 0]
    /\ future = [t \in Tasks |-> "none"]
    /\ enq_after_stop = FALSE
    /\ late_reject = FALSE
    /\ blocked_accepted = FALSE
    /\ blocked_at_stop = {}
    /\ taken_at_clear = -1
    /\ accepted_by = [p \in Producers |-> <<>>]

\* the pool of NWorkers threads, parallelism Parallelism, max_queue MaxQueue
WPInit ==
    WPInitWith([thread_count |-> NWorkers, parallelism |-> Parallelism,
                max_queue |-> MaxQueue])

\* the resource pool is not part of the worker pool's behaviours
RPIdle ==
    /\ available_ = <<>>
    /\ total_created_ = 0
    /\ shutdown_ = FALSE
    /\ cpc = [c \in {} |-> "idle"]
    /\ cres = [c \in {} |-> 0]
    /\ produced = {}
    /\ destroyed = [r \in {} |-> 0]
    /\ swait = [pc |-> "none", timed_out |-> FALSE, result |-> FALSE]
    /\ pool_life = "alive"
    /\ late = {}

\* no ResourceHandle object is followed in the pools' behaviours
HIdle ==
    /\ handles = [h \in {} |-> 0]
    /\ returned = [l \in {} |-> 0]

\* no thread is followed through the locking of a call
LIdle ==
    /\ lpc = [t \in {} |-> "idle"]
    /\ lowner = [m \in {"rp", "wp"} |-> 0]

\* no shared_ptr pool is part of the behaviours of the other components
SpIdle ==
    /\ idle_ = <<>>
    /\ total_ = 0
    /\ shutting_down_ = FALSE
    /\ shpc = [c \in {} |-> "idle"]
    /\ shkind = [c \in {} |-> "none"]
    /\ shres = [c \in {} |-> 0]
    /\ cycles = [c \in {} |-> 0]

Init == WPInit /\ RPIdle /\ HIdle /\ LIdle /\ SpIdle

\* ------------------------------------------------------------ producers

\* A fresh task id for a new call. A call that is rejected leaves nothing
\* behind (its callable is destroyed with the call), so its id is free again.
\* tstate: "new" (no call owns the id), "pending" / "blocked" (a call is in
\* progress; blocked: it has waited for queue space), "queued", "taken" (dequeued
\* by a worker), "running", "done", "dropped" (cleared by shutdown)
FreeTasks == {t \in Tasks : tstate[t] = "new"}
FreshTask == CHOOSE t \in FreeTasks : \A u \in FreeTasks : t <= u

\* try_post / post / submit up to the first, unlocked check (lines 103, 111,
\* 126-128); submit then builds the packaged_task and its future (133-152).
\* A call that finds the flag set returns false (submit: throws) at once.
Start(p, kind) ==
    /\ ppc[p] = "idle"
    /\ FreeTasks # {}
    /\ IF ProducerLoad
       THEN /\ late_reject' = (late_reject \/ AnyShutdownReturned)
            /\ UNCHANGED <<ppc, pkind, ptask, future, tstate>>
       ELSE /\ tstate' = [tstate EXCEPT ![FreshTask] = "pending"]
            /\ pkind' = [pkind EXCEPT ![p] = kind]
            /\ ptask' = [ptask EXCEPT ![p] = FreshTask]
            /\ future' = [future EXCEPT ![FreshTask] =
                            IF kind = "submit" THEN "pending" ELSE "none"]
            /\ ppc' = [ppc EXCEPT ![p] = "lock"]
            /\ UNCHANGED late_reject
    /\ UNCHANGED <<is_stopping_, drain_on_shutdown_, queue_, permits_,
                   active_, mutex_, wpc, wtask, spc, sdrain, swin, execs,
                   enq_after_stop, blocked_accepted, blocked_at_stop,
                   taken_at_clear, rpvars, hvars, lvars, options_,
                   accepted_by, spvars>>

\* the call returns false (try_post, post) or throws (submit, line 159, which
\* discards the future) without enqueuing; the unique_lock releases mutex_
Reject(p) ==
    /\ tstate' = [tstate EXCEPT ![ptask[p]] = "new"]
    /\ future' = [future EXCEPT ![ptask[p]] = "none"]
    /\ ppc' = [ppc EXCEPT ![p] = "idle"]
    /\ pkind' = [pkind EXCEPT ![p] = "post"]
    /\ ptask' = [ptask EXCEPT ![p] = 0]
    /\ mutex_' = 0

\* Lock with the full test of try_enqueue comparing > instead of >=
LockFullOffByOne(p) ==
    /\ ppc[p] = "lock"
    /\ mutex_ = 0
    /\ IF ProducerLoad
       THEN Reject(p)
       ELSE IF pkind[p] = "try_post"
            THEN IF options_.max_queue # 0 /\ Len(queue_) > options_.max_queue
                 THEN Reject(p)
                 ELSE /\ mutex_' = p
                      /\ ppc' = [ppc EXCEPT ![p] = "enq"]
                      /\ UNCHANGED <<pkind, ptask, tstate, future>>
            ELSE /\ mutex_' = p
                 /\ ppc' = [ppc EXCEPT ![p] =
                              IF options_.max_queue # 0 THEN "pred" ELSE "enq"]
                 /\ UNCHANGED <<pkind, ptask, tstate, future>>
    /\ UNCHANGED <<is_stopping_, drain_on_shutdown_, queue_, permits_,
                   active_, wpc, wtask, spc, sdrain, swin, execs,
                   enq_after_stop, late_reject, blocked_accepted,
                   blocked_at_stop, taken_at_clear, rpvars, hvars, lvars,
                   options_, accepted_by, spvars>>

\* try_enqueue lines 222-226 / enqueue_blocking lines 233-235
Lock(p) ==
    /\ ppc[p] = "lock"
    /\ mutex_ = 0
    /\ IF ProducerLoad
       THEN Reject(p)
       ELSE IF pkind[p] = "try_post"
            THEN IF options_.max_queue # 0 /\ Len(queue_) >= options_.max_queue
                 THEN Reject(p)
                 ELSE /\ mutex_' = p
                      /\ ppc' = [ppc EXCEPT ![p] = "enq"]
                      /\ UNCHANGED <<pkind, ptask, tstate, future>>
            ELSE /\ mutex_' = p
                 /\ ppc' = [ppc EXCEPT ![p] =
                              IF options_.max_queue # 0 THEN "pred" ELSE "enq"]
                 /\ UNCHANGED <<pkind, ptask, tstate, future>>
    /\ UNCHANGED <<is_stopping_, drain_on_shutdown_, queue_, permits_,
                   active_, wpc, wtask, spc, sdrain, swin, execs,
                   enq_after_stop, late_reject, blocked_accepted,
                   blocked_at_stop, taken_at_clear, rpvars, hvars, lvars,
                   options_, accepted_by, spvars>>

\* WaitSpace with the predicate comparing <= instead of <
WaitSpaceOffByOne(p) ==
    /\ ppc[p] = "pred"
    /\ mutex_ \in {0, p}
    /\ IF ProducerLoad \/ Len(queue_) <= options_.max_queue
       THEN /\ mutex_' = p
            /\ ppc' = [ppc EXCEPT ![p] = "chk"]
            /\ UNCHANGED tstate
       ELSE /\ mutex_' = 0
            /\ ppc' = [ppc EXCEPT ![p] = "wait"]
            /\ tstate' = [tstate EXCEPT ![ptask[p]] = "blocked"]
    /\ UNCHANGED <<is_stopping_, drain_on_shutdown_, queue_, permits_,
                   active_, wpc, wtask, pkind, ptask, spc, sdrain, swin,
                   execs, future, enq_after_stop, blocked_at_stop,
                   taken_at_clear, late_reject, blocked_accepted, rpvars,
                   hvars, lvars, options_, accepted_by, spvars>>

\* enqueue_blocking lines 236-238: the predicate of space_cv_.wait, evaluated
\* with mutex_ held (on entry, or after a wakeup re-acquired it)
WaitSpace(p) ==
    /\ ppc[p] = "pred"
    /\ mutex_ \in {0, p}
    /\ IF ProducerLoad \/ Len(queue_) < options_.max_queue
       THEN /\ mutex_' = p
            /\ ppc' = [ppc EXCEPT ![p] = "chk"]
            /\ UNCHANGED tstate
       ELSE /\ mutex_' = 0
            /\ ppc' = [ppc EXCEPT ![p] = "wait"]
            /\ tstate' = [tstate EXCEPT ![ptask[p]] = "blocked"]
    /\ UNCHANGED <<is_stopping_, drain_on_shutdown_, queue_, permits_,
                   active_, wpc, wtask, pkind, ptask, spc, sdrain, swin,
                   execs, future, enq_after_stop, blocked_at_stop,
                   taken_at_clear, late_reject, blocked_accepted, rpvars,
                   hvars, lvars, options_, accepted_by, spvars>>

\* CheckAfterWait without the re-check of the flag
CheckAfterWaitNoCheck(p) ==
    /\ ppc[p] = "chk"
    /\ mutex_ = p
    /\ ppc' = [ppc EXCEPT ![p] = "enq"]
    /\ UNCHANGED <<is_stopping_, drain_on_shutdown_, queue_, permits_,
                   active_, mutex_, wpc, wtask, pkind, ptask, spc, sdrain,
                   swin, tstate, execs, future, enq_after_stop, late_reject,
                   blocked_accepted, blocked_at_stop, taken_at_clear, rpvars,
                   hvars, lvars, options_, accepted_by, spvars>>

\* enqueue_blocking line 239
CheckAfterWait(p) ==
    /\ ppc[p] = "chk"
    /\ mutex_ = p
    /\ IF ProducerLoad
       THEN Reject(p)
       ELSE /\ ppc' = [ppc EXCEPT ![p] = "enq"]
            /\ UNCHANGED <<pkind, ptask, tstate, future, mutex_>>
    /\ UNCHANGED <<is_stopping_, drain_on_shutdown_, queue_, permits_,
                   active_, wpc, wtask, spc, sdrain, swin, execs,
                   enq_after_stop, late_reject, blocked_accepted,
                   blocked_at_stop, taken_at_clear, rpvars, hvars, lvars,
                   options_, accepted_by, spvars>>

\* try_enqueue lines 227-229 / enqueue_blocking lines 241-243
Enqueue(p) ==
    /\ ppc[p] = "enq"
    /\ mutex_ = p
    /\ queue_' = Append(queue_, ptask[p])
    /\ \E nw \in NotifyOneTask(wpc) : wpc' = nw
    /\ mutex_' = 0
    /\ tstate' = [tstate EXCEPT ![ptask[p]] = "queued"]
    /\ ppc' = [ppc EXCEPT ![p] = "idle"]
    /\ pkind' = [pkind EXCEPT ![p] = "post"]
    /\ ptask' = [ptask EXCEPT ![p] = 0]
    /\ enq_after_stop' = (enq_after_stop \/ is_stopping_)
    /\ blocked_accepted' = (blocked_accepted \/ tstate[ptask[p]] = "blocked")
    /\ accepted_by' = [accepted_by EXCEPT ![p] = Append(@, ptask[p])]
    /\ UNCHANGED <<is_stopping_, drain_on_shutdown_, permits_, active_,
                   wtask, spc, sdrain, swin, execs, future, blocked_at_stop,
                   taken_at_clear, late_reject, rpvars, hvars, lvars,
                   options_, spvars>>

\* a spurious wakeup of space_cv_.wait
SpuriousSpace(p) ==
    /\ ppc[p] = "wait"
    /\ ppc' = [ppc EXCEPT ![p] = "pred"]
    /\ UNCHANGED <<is_stopping_, drain_on_shutdown_, queue_, permits_,
                   active_, mutex_, wpc, wtask, pkind, ptask, spc, sdrain,
                   swin, tstate, execs, future, enq_after_stop,
                   blocked_at_stop, taken_at_clear, late_reject,
                   blocked_accepted, rpvars, hvars, lvars, options_,
                   accepted_by, spvars>>

\* ------------------------------------------------------------ workers

\* std::deque::pop_front()
PopFront(q) == Tail(q)

\* WorkerTake leaving the loop as soon as the flag is set, queue drained or not
WorkerTakeNoDrain(w) ==
    /\ wpc[w] = "lock"
    /\ mutex_ = 0
    /\ IF queue_ # <<>> /\ ~is_stopping_
       THEN /\ wtask' = [wtask EXCEPT ![w] = Head(queue_)]
            /\ tstate' = [tstate EXCEPT ![Head(queue_)] = "taken"]
            /\ queue_' = PopFront(queue_)
            /\ wpc' = [wpc EXCEPT ![w] = "permit"]
            /\ IF options_.max_queue # 0
               THEN \E np \in NotifyOneSpace(ppc) : ppc' = np
               ELSE ppc' = ppc
       ELSE /\ wpc' = [wpc EXCEPT ![w] = IF is_stopping_ THEN "exit" ELSE "wait"]
            /\ UNCHANGED <<wtask, tstate, queue_, ppc>>
    /\ UNCHANGED <<is_stopping_, drain_on_shutdown_, permits_, active_,
                   mutex_, pkind, ptask, spc, sdrain, swin, execs, future,
                   enq_after_stop, late_reject, blocked_accepted,
                   blocked_at_stop, taken_at_clear, rpvars, hvars, lvars,
                   options_, accepted_by, spvars>>

\* WorkerTake without space_cv_.notify_one() after the dequeue
WorkerTakeNoNotify(w) ==
    /\ wpc[w] = "lock"
    /\ mutex_ = 0
    /\ IF queue_ # <<>>
       THEN /\ wtask' = [wtask EXCEPT ![w] = Head(queue_)]
            /\ tstate' = [tstate EXCEPT ![Head(queue_)] = "taken"]
            /\ queue_' = PopFront(queue_)
            /\ wpc' = [wpc EXCEPT ![w] = "permit"]
            /\ ppc' = ppc
       ELSE /\ wpc' = [wpc EXCEPT ![w] = IF is_stopping_ THEN "exit" ELSE "wait"]
            /\ UNCHANGED <<wtask, tstate, queue_, ppc>>
    /\ UNCHANGED <<is_stopping_, drain_on_shutdown_, permits_, active_,
                   mutex_, pkind, ptask, spc, sdrain, swin, execs, future,
                   enq_after_stop, late_reject, blocked_accepted,
                   blocked_at_stop, taken_at_clear, rpvars, hvars, lvars,
                   options_, accepted_by, spvars>>

\* WorkerTake whose wait predicate and exit test ignore is_stopping_
WorkerTakeNoStopCheck(w) ==
    /\ wpc[w] = "lock"
    /\ mutex_ = 0
    /\ IF queue_ # <<>>
       THEN /\ wtask' = [wtask EXCEPT ![w] = Head(queue_)]
            /\ tstate' = [tstate EXCEPT ![Head(queue_)] = "taken"]
            /\ queue_' = PopFront(queue_)
            /\ wpc' = [wpc EXCEPT ![w] = "permit"]
            /\ IF options_.max_queue # 0
               THEN \E np \in NotifyOneSpace(ppc) : ppc' = np
               ELSE ppc' = ppc
       ELSE /\ wpc' = [wpc EXCEPT ![w] = "wait"]
            /\ UNCHANGED <<wtask, tstate, queue_, ppc>>
    /\ UNCHANGED <<is_stopping_, drain_on_shutdown_, permits_, active_,
                   mutex_, pkind, ptask, spc, sdrain, swin, execs, future,
                   enq_after_stop, late_reject, blocked_accepted,
                   blocked_at_stop, taken_at_clear, rpvars, hvars, lvars,
                   options_, accepted_by, spvars>>

\* WorkerTake taking the newest task, queue_.back(), instead of the oldest
WorkerTakeBack(w) ==
    /\ wpc[w] = "lock"
    /\ mutex_ = 0
    /\ IF queue_ # <<>>
       THEN /\ wtask' = [wtask EXCEPT ![w] = queue_[Len(queue_)]]
            /\ tstate' = [tstate EXCEPT ![queue_[Len(queue_)]] = "taken"]
            /\ queue_' = SubSeq(queue_, 1, Len(queue_) - 1)
            /\ wpc' = [wpc EXCEPT ![w] = "permit"]
            /\ IF options_.max_queue # 0
               THEN \E np \in NotifyOneSpace(ppc) : ppc' = np
               ELSE ppc' = ppc
       ELSE /\ wpc' = [wpc EXCEPT ![w] = IF is_stopping_ THEN "exit" ELSE "wait"]
            /\ UNCHANGED <<wtask, tstate, queue_, ppc>>
    /\ UNCHANGED <<is_stopping_, drain_on_shutdown_, permits_, active_,
                   mutex_, pkind, ptask, spc, sdrain, swin, execs, future,
                   enq_after_stop, late_reject, blocked_accepted,
                   blocked_at_stop, taken_at_clear, rpvars, hvars, lvars,
                   options_, accepted_by, spvars>>

\* worker_loop lines 281-299: lock, task_cv_.wait predicate, exit test, dequeue.
\* The flag is read at 282 and 286 while mutex_ pins the queue: an empty queue
\* with the flag clear waits, an empty queue with the flag set breaks.
WorkerTake(w) ==
    /\ wpc[w] = "lock"
    /\ mutex_ = 0
    /\ IF queue_ # <<>>
       THEN /\ wtask' = [wtask EXCEPT ![w] = Head(queue_)]
            /\ tstate' = [tstate EXCEPT ![Head(queue_)] = "taken"]
            /\ queue_' = PopFront(queue_)
            /\ wpc' = [wpc EXCEPT ![w] = "permit"]
            /\ IF options_.max_queue # 0
               THEN \E np \in NotifyOneSpace(ppc) : ppc' = np
               ELSE ppc' = ppc
       ELSE /\ wpc' = [wpc EXCEPT ![w] = IF is_stopping_ THEN "exit" ELSE "wait"]
            /\ UNCHANGED <<wtask, tstate, queue_, ppc>>
    /\ UNCHANGED <<is_stopping_, drain_on_shutdown_, permits_, active_,
                   mutex_, pkind, ptask, spc, sdrain, swin, execs, future,
                   enq_after_stop, late_reject, blocked_accepted,
                   blocked_at_stop, taken_at_clear, rpvars, hvars, lvars,
                   options_, accepted_by, spvars>>

\* a spurious wakeup of task_cv_.wait
SpuriousTask(w) ==
    /\ wpc[w] = "wait"
    /\ wpc' = [wpc EXCEPT ![w] = "lock"]
    /\ UNCHANGED <<is_stopping_, drain_on_shutdown_, queue_, permits_,
                   active_, mutex_, wtask, ppc, pkind, ptask, spc, sdrain,
                   swin, tstate, execs, future, enq_after_stop,
                   blocked_at_stop, taken_at_clear, late_reject,
                   blocked_accepted, rpvars, hvars, lvars, options_,
                   accepted_by, spvars>>

\* AcquirePermit that does not wait for a permit
AcquirePermitNoWait(w) ==
    /\ wpc[w] = "permit"
    /\ permits_' = permits_ - 1
    /\ wpc' = [wpc EXCEPT ![w] = "inc"]
    /\ UNCHANGED <<is_stopping_, drain_on_shutdown_, queue_, active_, mutex_,
                   wtask, ppc, pkind, ptask, spc, sdrain, swin, tstate,
                   execs, future, enq_after_stop, blocked_at_stop,
                   taken_at_clear, late_reject, blocked_accepted, rpvars,
                   hvars, lvars, options_, accepted_by, spvars>>

\* AcquirePermit of a worker that abandons its dequeued task when a drop
\* shutdown has begun
AcquirePermitDropsOnStop(w) ==
    /\ wpc[w] = "permit"
    /\ IF is_stopping_ /\ ~drain_on_shutdown_
       THEN /\ tstate' = [tstate EXCEPT ![wtask[w]] = "dropped"]
            /\ wtask' = [wtask EXCEPT ![w] = 0]
            /\ wpc' = [wpc EXCEPT ![w] = "lock"]
            /\ UNCHANGED permits_
       ELSE /\ permits_ > 0
            /\ permits_' = permits_ - 1
            /\ wpc' = [wpc EXCEPT ![w] = "inc"]
            /\ UNCHANGED <<tstate, wtask>>
    /\ UNCHANGED <<is_stopping_, drain_on_shutdown_, queue_, active_, mutex_,
                   ppc, pkind, ptask, spc, sdrain, swin, execs, future,
                   enq_after_stop, blocked_at_stop, taken_at_clear,
                   late_reject, blocked_accepted, rpvars, hvars, lvars,
                   options_, accepted_by, spvars>>

\* permits_.acquire(), line 304
AcquirePermit(w) ==
    /\ wpc[w] = "permit"
    /\ permits_ > 0
    /\ permits_' = permits_ - 1
    /\ wpc' = [wpc EXCEPT ![w] = "inc"]
    /\ UNCHANGED <<is_stopping_, drain_on_shutdown_, queue_, active_, mutex_,
                   wtask, ppc, pkind, ptask, spc, sdrain, swin, tstate,
                   execs, future, enq_after_stop, blocked_at_stop,
                   taken_at_clear, late_reject, blocked_accepted, rpvars,
                   hvars, lvars, options_, accepted_by, spvars>>

\* active_.fetch_add(1) and the call task(), lines 305-307
BeginTask(w) ==
    /\ wpc[w] = "inc"
    /\ active_' = active_ + 1
    /\ tstate' = [tstate EXCEPT ![wtask[w]] = "running"]
    /\ execs' = [execs EXCEPT ![wtask[w]] = @ + 1]
    /\ wpc' = [wpc EXCEPT ![w] = "run"]
    /\ UNCHANGED <<is_stopping_, drain_on_shutdown_, queue_, permits_,
                   mutex_, wtask, ppc, pkind, ptask, spc, sdrain, swin,
                   future, enq_after_stop, late_reject, blocked_accepted,
                   blocked_at_stop, taken_at_clear, rpvars, hvars, lvars,
                   options_, accepted_by, spvars>>

\* EndTask without the try / catch around task(): the exception ends the thread
EndTaskUncaught(w, how) ==
    /\ wpc[w] = "run"
    /\ IF future[wtask[w]] = "pending"
       THEN /\ wpc' = [wpc EXCEPT ![w] = IF how = "value" THEN "ptask_value"
                                                          ELSE "ptask_exception"]
            /\ UNCHANGED <<active_, tstate, future>>
       ELSE IF how = "exception"
       THEN /\ wpc' = [wpc EXCEPT ![w] = "exit"]
            /\ UNCHANGED <<active_, tstate, future>>
       ELSE /\ active_' = active_ - 1
            /\ tstate' = [tstate EXCEPT ![wtask[w]] = "done"]
            /\ wpc' = [wpc EXCEPT ![w] = "rel"]
            /\ UNCHANGED future
    /\ UNCHANGED <<is_stopping_, drain_on_shutdown_, queue_, permits_,
                   mutex_, wtask, ppc, pkind, ptask, spc, sdrain, swin,
                   execs, enq_after_stop, late_reject, blocked_accepted,
                   blocked_at_stop, taken_at_clear, rpvars, hvars, lvars,
                   options_, accepted_by, spvars>>

\* The user callable ends, line 306. The callable of a post / try_post that
\* raises leaves task() by the exception, into catch (...) at 308; one that
\* returns goes on to active_.fetch_sub(1) at 312. The Task of a submit is
\* [ptask] { (*ptask)(); } (154-156): the callable ends inside the
\* packaged_task, which holds its value or its exception.
EndTask(w, how) ==
    /\ wpc[w] = "run"
    /\ IF future[wtask[w]] = "pending"
       THEN /\ wpc' = [wpc EXCEPT ![w] = IF how = "value" THEN "ptask_value"
                                                          ELSE "ptask_exception"]
            /\ UNCHANGED <<active_, tstate, future>>
       ELSE IF how = "exception"
       THEN /\ wpc' = [wpc EXCEPT ![w] = "catch"]
            /\ UNCHANGED <<active_, tstate, future>>
       ELSE /\ active_' = active_ - 1
            /\ tstate' = [tstate EXCEPT ![wtask[w]] = "done"]
            /\ wpc' = [wpc EXCEPT ![w] = "rel"]
            /\ UNCHANGED future
    /\ UNCHANGED <<is_stopping_, drain_on_shutdown_, queue_, permits_,
                   mutex_, wtask, ppc, pkind, ptask, spc, sdrain, swin,
                   execs, enq_after_stop, late_reject, blocked_accepted,
                   blocked_at_stop, taken_at_clear, rpvars, hvars, lvars,
                   options_, accepted_by, spvars>>

\* PackagedTaskStore that stores a value whatever the callable did
PackagedTaskStoreValue(w) ==
    /\ wpc[w] \in {"ptask_value", "ptask_exception"}
    /\ future' = [future EXCEPT ![wtask[w]] =
                    "value"]
    /\ active_' = active_ - 1
    /\ tstate' = [tstate EXCEPT ![wtask[w]] = "done"]
    /\ wpc' = [wpc EXCEPT ![w] = "rel"]
    /\ UNCHANGED <<is_stopping_, drain_on_shutdown_, queue_, permits_,
                   mutex_, wtask, ppc, pkind, ptask, spc, sdrain, swin,
                   execs, enq_after_stop, late_reject, blocked_accepted,
                   blocked_at_stop, taken_at_clear, rpvars, hvars, lvars,
                   options_, accepted_by, spvars>>

\* packaged_task::operator() (133-152, called at 155) makes the shared state
\* of the future ready with the value or the exception and returns normally
\* to the worker loop, which goes on to active_.fetch_sub(1) at 312
PackagedTaskStore(w) ==
    /\ wpc[w] \in {"ptask_value", "ptask_exception"}
    /\ future' = [future EXCEPT ![wtask[w]] =
                    IF wpc[w] = "ptask_value" THEN "value" ELSE "exception"]
    /\ active_' = active_ - 1
    /\ tstate' = [tstate EXCEPT ![wtask[w]] = "done"]
    /\ wpc' = [wpc EXCEPT ![w] = "rel"]
    /\ UNCHANGED <<is_stopping_, drain_on_shutdown_, queue_, permits_,
                   mutex_, wtask, ppc, pkind, ptask, spc, sdrain, swin,
                   execs, enq_after_stop, late_reject, blocked_accepted,
                   blocked_at_stop, taken_at_clear, rpvars, hvars, lvars,
                   options_, accepted_by, spvars>>

\* Swallow that leaves active_ as it is: a catch handler without the
\* fetch_sub of line 312
SwallowKeepsActive(w) ==
    /\ wpc[w] = "catch"
    /\ tstate' = [tstate EXCEPT ![wtask[w]] = "done"]
    /\ wpc' = [wpc EXCEPT ![w] = "rel"]
    /\ UNCHANGED <<is_stopping_, drain_on_shutdown_, queue_, permits_,
                   active_, mutex_, wtask, ppc, pkind, ptask, spc, sdrain,
                   swin, execs, future, enq_after_stop, late_reject,
                   blocked_accepted, blocked_at_stop, taken_at_clear, rpvars,
                   hvars, lvars, options_, accepted_by, spvars>>

\* catch (...) swallows the exception, lines 308-311, then active_.fetch_sub(1)
Swallow(w) ==
    /\ wpc[w] = "catch"
    /\ active_' = active_ - 1
    /\ tstate' = [tstate EXCEPT ![wtask[w]] = "done"]
    /\ wpc' = [wpc EXCEPT ![w] = "rel"]
    /\ UNCHANGED <<is_stopping_, drain_on_shutdown_, queue_, permits_,
                   mutex_, wtask, ppc, pkind, ptask, spc, sdrain, swin,
                   execs, future, enq_after_stop, late_reject,
                   blocked_accepted, blocked_at_stop, taken_at_clear, rpvars,
                   hvars, lvars, options_, accepted_by, spvars>>

\* permits_.release() and back to the top of the loop, lines 313-320
ReleasePermit(w) ==
    /\ wpc[w] = "rel"
    /\ permits_' = permits_ + 1
    /\ wtask' = [wtask EXCEPT ![w] = 0]
    /\ wpc' = [wpc EXCEPT ![w] = "lock"]
    /\ UNCHANGED <<is_stopping_, drain_on_shutdown_, queue_, active_, mutex_,
                   ppc, pkind, ptask, spc, sdrain, swin, tstate, execs,
                   future, enq_after_stop, blocked_at_stop, taken_at_clear,
                   late_reject, blocked_accepted, rpvars, hvars, lvars,
                   options_, accepted_by, spvars>>

\* ------------------------------------------------------------ shutdown

\* ShutdownCAS whose caller goes on to the critical section even when the
\* flag was set already
ShutdownCASAlways(s, drain) ==
    /\ spc[s] = "idle"
    /\ \A r \in Stoppers : r < s => spc[r] # "idle"
    /\ sdrain' = [sdrain EXCEPT ![s] = drain]
    /\ IF is_stopping_
       THEN /\ spc' = [spc EXCEPT ![s] = "clear"]
            /\ UNCHANGED <<is_stopping_, swin, blocked_at_stop>>
       ELSE /\ is_stopping_' = TRUE
            /\ swin' = [swin EXCEPT ![s] = TRUE]
            /\ spc' = [spc EXCEPT ![s] = "clear"]
            /\ blocked_at_stop' = {ptask[p] : p \in {q \in Producers : ppc[q] = "wait"}}
    /\ UNCHANGED <<drain_on_shutdown_, queue_, permits_, active_, mutex_,
                   wpc, wtask, ppc, pkind, ptask, tstate, execs, future,
                   enq_after_stop, taken_at_clear, late_reject,
                   blocked_accepted, rpvars, hvars, lvars, options_,
                   accepted_by, spvars>>

\* shutdown lines 167-171: is_stopping_.compare_exchange_strong(false, true)
\* Callers are numbered in the order of their compare_exchange.
ShutdownCAS(s, drain) ==
    /\ spc[s] = "idle"
    /\ \A r \in Stoppers : r < s => spc[r] # "idle"
    /\ sdrain' = [sdrain EXCEPT ![s] = drain]
    /\ IF is_stopping_
       THEN /\ spc' = [spc EXCEPT ![s] = "ret"]
            /\ UNCHANGED <<is_stopping_, swin, blocked_at_stop>>
       ELSE /\ is_stopping_' = TRUE
            /\ swin' = [swin EXCEPT ![s] = TRUE]
            /\ spc' = [spc EXCEPT ![s] = "clear"]
            /\ blocked_at_stop' = {ptask[p] : p \in {q \in Producers : ppc[q] = "wait"}}
    /\ UNCHANGED <<drain_on_shutdown_, queue_, permits_, active_, mutex_,
                   wpc, wtask, ppc, pkind, ptask, tstate, execs, future,
                   enq_after_stop, taken_at_clear, late_reject,
                   blocked_accepted, rpvars, hvars, lvars, options_,
                   accepted_by, spvars>>

\* ShutdownClear that never clears the queue
ShutdownClearKeeps(s) ==
    /\ spc[s] = "clear"
    /\ mutex_ = 0
    /\ drain_on_shutdown_' = sdrain[s]
    /\ taken_at_clear' = Cardinality(Dequeued)
    /\ spc' = [spc EXCEPT ![s] = "notify"]
    /\ UNCHANGED <<is_stopping_, queue_, permits_, active_, mutex_, wpc,
                   wtask, ppc, pkind, ptask, sdrain, swin, tstate, execs,
                   future, enq_after_stop, late_reject, blocked_accepted,
                   blocked_at_stop, rpvars, hvars, lvars, options_,
                   accepted_by, spvars>>

\* shutdown lines 173-179: under mutex_, record the policy, clear the queue
ShutdownClear(s) ==
    /\ spc[s] = "clear"
    /\ mutex_ = 0
    /\ drain_on_shutdown_' = sdrain[s]
    /\ IF ~sdrain[s]
       THEN /\ queue_' = <<>>
            /\ tstate' = [t \in Tasks |->
                            IF tstate[t] = "queued" THEN "dropped" ELSE tstate[t]]
            /\ future' = [t \in Tasks |->
                            IF tstate[t] = "queued" /\ future[t] = "pending"
                            THEN "broken" ELSE future[t]]
       ELSE UNCHANGED <<queue_, tstate, future>>
    /\ taken_at_clear' = Cardinality(Dequeued)
    /\ spc' = [spc EXCEPT ![s] = "notify"]
    /\ UNCHANGED <<is_stopping_, permits_, active_, mutex_, wpc, wtask, ppc,
                   pkind, ptask, sdrain, swin, execs, enq_after_stop,
                   blocked_at_stop, late_reject, blocked_accepted, rpvars,
                   hvars, lvars, options_, accepted_by, spvars>>

\* shutdown lines 182-185: space_cv_.notify_all(); task_cv_.notify_all()
ShutdownNotify(s) ==
    /\ spc[s] = "notify"
    /\ ppc' = NotifyAllSpace(ppc)
    /\ wpc' = NotifyAllTask(wpc)
    /\ spc' = [spc EXCEPT ![s] = "stop"]
    /\ UNCHANGED <<is_stopping_, drain_on_shutdown_, queue_, permits_,
                   active_, mutex_, wtask, pkind, ptask, sdrain, swin,
                   tstate, execs, future, enq_after_stop, blocked_at_stop,
                   taken_at_clear, late_reject, blocked_accepted, rpvars,
                   hvars, lvars, options_, accepted_by, spvars>>

\* shutdown lines 188-190: request_stop() runs every worker's stop_callback
\* (worker_loop lines 274-277), which notifies both condition variables
ShutdownRequestStop(s) ==
    /\ spc[s] = "stop"
    /\ ppc' = NotifyAllSpace(ppc)
    /\ wpc' = NotifyAllTask(wpc)
    /\ spc' = [spc EXCEPT ![s] = "join"]
    /\ UNCHANGED <<is_stopping_, drain_on_shutdown_, queue_, permits_,
                   active_, mutex_, wtask, pkind, ptask, sdrain, swin,
                   tstate, execs, future, enq_after_stop, blocked_at_stop,
                   taken_at_clear, late_reject, blocked_accepted, rpvars,
                   hvars, lvars, options_, accepted_by, spvars>>

\* shutdown line 192: threads_.clear() joins every jthread
ShutdownJoin(s) ==
    /\ spc[s] = "join"
    /\ \A w \in Workers : wpc[w] = "exit"
    /\ spc' = [spc EXCEPT ![s] = "ret"]
    /\ UNCHANGED <<is_stopping_, drain_on_shutdown_, queue_, permits_,
                   active_, mutex_, wpc, wtask, ppc, pkind, ptask, sdrain,
                   swin, tstate, execs, future, enq_after_stop,
                   blocked_at_stop, taken_at_clear, late_reject,
                   blocked_accepted, rpvars, hvars, lvars, options_,
                   accepted_by, spvars>>

\* ------------------------------------------------------------ specification
Next ==
    \/ \E p \in Producers, k \in Kinds : Start(p, k)
    \/ \E p \in Producers : Lock(p)
    \/ \E p \in Producers : WaitSpace(p)
    \/ \E p \in Producers : CheckAfterWait(p)
    \/ \E p \in Producers : Enqueue(p)
    \/ \E p \in Producers : SpuriousSpace(p)
    \/ \E w \in Workers : WorkerTake(w)
    \/ \E w \in Workers : SpuriousTask(w)
    \/ \E w \in Workers : AcquirePermit(w)
    \/ \E w \in Workers : BeginTask(w)
    \/ \E w \in Workers, how \in {"value", "exception"} : EndTask(w, how)
    \/ \E w \in Workers : Swallow(w)
    \/ \E w \in Workers : PackagedTaskStore(w)
    \/ \E w \in Workers : ReleasePermit(w)
    \/ \E s \in Stoppers, d \in BOOLEAN : ShutdownCAS(s, d)
    \/ \E s \in Stoppers : ShutdownClear(s)
    \/ \E s \in Stoppers : ShutdownNotify(s)
    \/ \E s \in Stoppers : ShutdownRequestStop(s)
    \/ \E s \in Stoppers : ShutdownJoin(s)

Spec == Init /\ [][Next]_vars

\* the steps a thread owes once it is inside a call / inside worker_loop
ProducerStep(p) == Lock(p) \/ WaitSpace(p) \/ CheckAfterWait(p) \/ Enqueue(p)
WorkerStep(w) ==
    \/ WorkerTake(w)
    \/ AcquirePermit(w)
    \/ BeginTask(w)
    \/ \E how \in {"value", "exception"} : EndTask(w, how)
    \/ Swallow(w)
    \/ PackagedTaskStore(w)
    \/ ReleasePermit(w)
StopperStep(s) ==
    ShutdownClear(s) \/ ShutdownNotify(s) \/ ShutdownRequestStop(s) \/ ShutdownJoin(s)

\* Scheduling: every thread that can take a step eventually takes one, a
\* running task eventually ends. Nobody is obliged to submit work or to call
\* shutdown, and spurious wakeups are never owed.
Fairness ==
    /\ \A p \in Producers : WF_vars(ProducerStep(p))
    /\ \A w \in Workers : WF_vars(WorkerStep(w))
    /\ \A s \in Stoppers : WF_vars(StopperStep(s))

\* The pool under fair scheduling, for the progress properties of post:
\* producers call try_post and post (submit enqueues through the same
\* enqueue_blocking as post), and one thread calls shutdown.
FairNext ==
    \/ \E p \in Producers, k \in {"try_post", "post"} : Start(p, k)
    \/ \E p \in Producers : Lock(p)
    \/ \E p \in Producers : WaitSpace(p)
    \/ \E p \in Producers : CheckAfterWait(p)
    \/ \E p \in Producers : Enqueue(p)
    \/ \E p \in Producers : SpuriousSpace(p)
    \/ \E w \in Workers : WorkerTake(w)
    \/ \E w \in Workers : SpuriousTask(w)
    \/ \E w \in Workers : AcquirePermit(w)
    \/ \E w \in Workers : BeginTask(w)
    \/ \E w \in Workers, how \in {"value", "exception"} : EndTask(w, how)
    \/ \E w \in Workers : Swallow(w)
    \/ \E w \in Workers : ReleasePermit(w)
    \/ \E d \in BOOLEAN : ShutdownCAS(1, d)
    \/ ShutdownClear(1)
    \/ ShutdownNotify(1)
    \/ ShutdownRequestStop(1)
    \/ ShutdownJoin(1)

FairSpec == Init /\ [][FairNext]_vars /\ Fairness

\* Pools constructed with other options: any thread_count up to NWorkers, and
\* an unbounded (max_queue = 0) as well as a bounded queue
OptInit ==
    /\ \E n \in 1..NWorkers, m \in {0, MaxQueue} :
          WPInitWith([thread_count |-> n, parallelism |-> Parallelism,
                      max_queue |-> m])
    /\ RPIdle
    /\ HIdle
    /\ LIdle
    /\ SpIdle

OptSpec == OptInit /\ [][Next]_vars

\* The pool for every combination of thread_count N and parallelism P up to
\* NWorkers and MaxParallelism (P below, equal to and above N), with one
\* thread that posts and submits and one that shuts down
MaxParallelism == 2

PermitInit ==
    /\ \E n \in 1..NWorkers, par \in 1..MaxParallelism :
          WPInitWith([thread_count |-> n, parallelism |-> par,
                      max_queue |-> MaxQueue])
    /\ RPIdle
    /\ HIdle
    /\ LIdle
    /\ SpIdle

PermitNext ==
    \/ \E k \in Kinds : Start(1, k)
    \/ Lock(1)
    \/ WaitSpace(1)
    \/ CheckAfterWait(1)
    \/ Enqueue(1)
    \/ SpuriousSpace(1)
    \/ \E w \in Workers : WorkerTake(w)
    \/ \E w \in Workers : SpuriousTask(w)
    \/ \E w \in Workers : AcquirePermit(w)
    \/ \E w \in Workers : BeginTask(w)
    \/ \E w \in Workers, how \in {"value", "exception"} : EndTask(w, how)
    \/ \E w \in Workers : Swallow(w)
    \/ \E w \in Workers : PackagedTaskStore(w)
    \/ \E w \in Workers : ReleasePermit(w)
    \/ \E d \in BOOLEAN : ShutdownCAS(1, d)
    \/ ShutdownClear(1)
    \/ ShutdownNotify(1)
    \/ ShutdownRequestStop(1)
    \/ ShutdownJoin(1)

PermitSpec == PermitInit /\ [][PermitNext]_vars

\* a post whose caller is inside space_cv_.wait (enqueue_blocking line 236)
BlockedTask(t) == \E p \in Producers : ptask[p] = t /\ ppc[p] = "wait"

\* ====================================================================
\* resource_pool::ResourcePool<T> (resource_handle.h)
\* ====================================================================
NClients == 3
NResources == 4
MaxSize == 2
InitialSize == 1

Clients == 1..NClients
Resources == 1..NResources

\* size_t arithmetic of total_created_: ++ and -- wrap around (the all-ones
\* value of size_t is written SIZE_MAX)
SIZE_MAX == 2147483647
Inc(n) == IF n = SIZE_MAX THEN 0 ELSE n + 1
Dec(n) == IF n = 0 THEN SIZE_MAX ELSE n - 1

\* PoolConfig and the optional callbacks the pool was constructed with
config_ ==
    [initial_size |-> InitialSize, max_size |-> MaxSize,
     validate_on_acquire |-> TRUE, validate_on_return |-> TRUE]
validator_ == TRUE
destroyer_ == TRUE

\* the resources that exist: idle in available_, or in a client's hands
LiveResources ==
    {available_[i] : i \in 1..Len(available_)} \cup
    {cres[c] : c \in {d \in Clients : cres[d] # 0}}
\* every factory_() call makes a new object: ids are never used twice
UnusedResources == Resources \ produced
NewResource == CHOOSE r \in UnusedResources : \A u \in UnusedResources : r <= u

\* outstanding leases: clients holding a ResourceHandle
Leases == {c \in Clients : cpc[c] = "holding"}

\* cv_.notify_one(): one waiter, if any, leaves cv_.wait_until
RPNotifyOne(pcs) ==
    LET ws == {c \in Clients : pcs[c] = "waiting"}
    IN IF ws = {} THEN {pcs} ELSE {[pcs EXCEPT ![c] = "woken"] : c \in ws}

\* cv_.notify_all()
RPNotifyAll(pcs) ==
    [c \in Clients |-> IF pcs[c] = "waiting" THEN "woken" ELSE pcs[c]]

\* ResourcePool constructor, lines 160-208: initial_size resources prefilled
RPInit ==
    /\ available_ = [i \in 1..config_.initial_size |-> i]
    /\ total_created_ = config_.initial_size
    /\ shutdown_ = FALSE
    /\ cpc = [c \in Clients |-> "idle"]
    /\ cres = [c \in Clients |-> 0]
    /\ produced = {available_[i] : i \in 1..Len(available_)}
    /\ destroyed = [r \in Resources |-> 0]
    /\ swait = [pc |-> "idle", timed_out |-> FALSE, result |-> FALSE]
    /\ pool_life = "alive"
    /\ late = {}

\* the deadline computed at line 237 belongs to one call of acquire: when
\* the call has ended (pc "idle" or "holding") it is gone
LateAfter(c, pc) == IF pc \in {"idle", "holding"} THEN late \ {c} ELSE late

\* AcquireLoop that takes the oldest idle resource (front of the vector)
AcquireLoopFront(c, tc, pcs) ==
    IF shutdown_
    THEN /\ cpc' = [pcs EXCEPT ![c] = "idle"]
         /\ cres' = [cres EXCEPT ![c] = 0]
         /\ total_created_' = tc
         /\ UNCHANGED available_
    ELSE IF available_ # <<>>
    THEN /\ cres' = [cres EXCEPT ![c] = available_[1]]
         /\ available_' = Tail(available_)
         /\ cpc' = [pcs EXCEPT ![c] =
                      IF config_.validate_on_acquire /\ validator_
                      THEN "a_validate" ELSE "holding"]
         /\ total_created_' = tc
    ELSE IF tc < config_.max_size
    THEN /\ total_created_' = Inc(tc)
         /\ cpc' = [pcs EXCEPT ![c] = "a_factory"]
         /\ cres' = [cres EXCEPT ![c] = 0]
         /\ UNCHANGED available_
    ELSE /\ cpc' = [pcs EXCEPT ![c] = IF c \in late THEN "idle" ELSE "waiting"]
         /\ cres' = [cres EXCEPT ![c] = 0]
         /\ total_created_' = tc
         /\ UNCHANGED available_

\* acquire lines 239-324, one pass of the loop with mutex_ held; tc is
\* total_created_ and pcs the waiters as the pass finds them. wait_until
\* called with a deadline that has passed returns timeout at once (321-322)
AcquireLoop(c, tc, pcs) ==
    IF shutdown_
    THEN /\ cpc' = [pcs EXCEPT ![c] = "idle"]
         /\ cres' = [cres EXCEPT ![c] = 0]
         /\ total_created_' = tc
         /\ UNCHANGED available_
    ELSE IF available_ # <<>>
    THEN /\ cres' = [cres EXCEPT ![c] = available_[Len(available_)]]
         /\ available_' = SubSeq(available_, 1, Len(available_) - 1)
         /\ cpc' = [pcs EXCEPT ![c] =
                      IF config_.validate_on_acquire /\ validator_
                      THEN "a_validate" ELSE "holding"]
         /\ total_created_' = tc
    ELSE IF tc < config_.max_size
    THEN /\ total_created_' = Inc(tc)
         /\ cpc' = [pcs EXCEPT ![c] = "a_factory"]
         /\ cres' = [cres EXCEPT ![c] = 0]
         /\ UNCHANGED available_
    ELSE /\ cpc' = [pcs EXCEPT ![c] = IF c \in late THEN "idle" ELSE "waiting"]
         /\ cres' = [cres EXCEPT ![c] = 0]
         /\ total_created_' = tc
         /\ UNCHANGED available_

\* acquire, entry: lines 233-239
Acquire(c) ==
    /\ cpc[c] = "idle"
    /\ AcquireLoop(c, total_created_, cpc)
    /\ late' = LateAfter(c, cpc'[c])
    /\ UNCHANGED <<shutdown_, produced, destroyed, swait, pool_life, wpvars,
                   hvars, lvars, spvars>>

\* acquire lines 251-273: the validator runs on the popped resource without
\* the mutex; a rejected one is dropped and the loop goes round
AcquireValidated(c, valid) ==
    /\ cpc[c] = "a_validate"
    /\ IF valid
       THEN /\ cpc' = [cpc EXCEPT ![c] = "holding"]
            /\ UNCHANGED <<cres, total_created_, available_>>
       ELSE \E pcs \in RPNotifyOne(cpc) :
               AcquireLoop(c, Dec(total_created_), pcs)
    /\ late' = LateAfter(c, cpc'[c])
    /\ UNCHANGED <<shutdown_, produced, destroyed, swait, pool_life, wpvars,
                   hvars, lvars, spvars>>

\* acquire lines 282-309: factory_() and the validator, without the mutex.
\* what: "throws", "null", "invalid" (validator rejects) or "valid"
AcquireCreate(c, what) ==
    /\ cpc[c] = "a_factory"
    /\ CASE what = "valid" ->
              /\ UnusedResources # {}
              /\ produced' = produced \cup {NewResource}
              /\ cres' = [cres EXCEPT ![c] = NewResource]
              /\ cpc' = [cpc EXCEPT ![c] = "holding"]
              /\ UNCHANGED total_created_
         [] what = "invalid" ->
              /\ validator_
              /\ UnusedResources # {}
              /\ produced' = produced \cup {NewResource}
              \* lines 297-302: rollback under rollback_lock, then throw;
              \* the unique_ptr frees the new resource during unwinding
              /\ total_created_' = Dec(total_created_)
              /\ \E pcs \in RPNotifyOne(cpc) :
                    cpc' = [pcs EXCEPT ![c] = "a_catch"]
              /\ UNCHANGED cres
         [] OTHER ->
              \* factory threw, or line 286 threw: straight to catch (...)
              /\ cpc' = [cpc EXCEPT ![c] = "a_catch"]
              /\ UNCHANGED <<cres, total_created_, produced>>
    /\ late' = LateAfter(c, cpc'[c])
    /\ UNCHANGED <<available_, shutdown_, destroyed, swait, pool_life,
                   wpvars, hvars, lvars, spvars>>

\* acquire lines 311-317: catch (...) rolls the reservation back, rethrows
AcquireCatch(c) ==
    /\ cpc[c] = "a_catch"
    /\ total_created_' = Dec(total_created_)
    /\ \E pcs \in RPNotifyOne(cpc) : cpc' = [pcs EXCEPT ![c] = "idle"]
    /\ late' = LateAfter(c, cpc'[c])
    /\ UNCHANGED <<cres, available_, shutdown_, produced, destroyed, swait,
                   pool_life, wpvars, hvars, lvars, spvars>>

\* acquire lines 321-323: wait_until returned without a timeout
AcquireWoken(c) ==
    /\ cpc[c] = "woken"
    /\ AcquireLoop(c, total_created_, cpc)
    /\ late' = LateAfter(c, cpc'[c])
    /\ UNCHANGED <<shutdown_, produced, destroyed, swait, pool_life, wpvars,
                   hvars, lvars, spvars>>

\* acquire lines 321-322: wait_until timed out, PoolException
AcquireTimeout(c) ==
    /\ cpc[c] \in {"waiting", "woken"}
    /\ cpc' = [cpc EXCEPT ![c] = "idle"]
    /\ late' = LateAfter(c, cpc'[c])
    /\ UNCHANGED <<cres, available_, total_created_, shutdown_, produced,
                   destroyed, swait, pool_life, wpvars, hvars, lvars,
                   spvars>>

\* a spurious wakeup of cv_.wait_until
RPSpurious(c) ==
    /\ cpc[c] = "waiting"
    /\ cpc' = [cpc EXCEPT ![c] = "woken"]
    /\ UNCHANGED <<cres, available_, total_created_, shutdown_, produced,
                   destroyed, swait, pool_life, wpvars, hvars, lvars, spvars,
                   late>>

\* tryAcquire lines 332-372 and 411, with mutex_ held
TryAcquire(c) ==
    /\ cpc[c] = "idle"
    /\ IF shutdown_
       THEN UNCHANGED <<cpc, cres, available_, total_created_>>
       ELSE IF available_ # <<>>
       THEN /\ cres' = [cres EXCEPT ![c] = available_[Len(available_)]]
            /\ available_' = SubSeq(available_, 1, Len(available_) - 1)
            /\ cpc' = [cpc EXCEPT ![c] =
                         IF config_.validate_on_acquire /\ validator_
                         THEN "t_validate" ELSE "holding"]
            /\ UNCHANGED total_created_
       ELSE IF total_created_ < config_.max_size
       THEN /\ total_created_' = Inc(total_created_)
            /\ cpc' = [cpc EXCEPT ![c] = "t_factory"]
            /\ UNCHANGED <<cres, available_>>
       ELSE UNCHANGED <<cpc, cres, available_, total_created_>>
    /\ UNCHANGED <<shutdown_, produced, destroyed, swait, pool_life, wpvars,
                   hvars, lvars, spvars, late>>

\* tryAcquire lines 345-366
TryAcquireValidated(c, valid) ==
    /\ cpc[c] = "t_validate"
    /\ IF valid
       THEN /\ cpc' = [cpc EXCEPT ![c] = "holding"]
            /\ UNCHANGED <<cres, total_created_>>
       ELSE /\ total_created_' = Dec(total_created_)
            /\ cres' = [cres EXCEPT ![c] = 0]
            /\ \E pcs \in RPNotifyOne(cpc) : cpc' = [pcs EXCEPT ![c] = "idle"]
    /\ UNCHANGED <<available_, shutdown_, produced, destroyed, swait,
                   pool_life, wpvars, hvars, lvars, spvars, late>>

\* tryAcquire lines 374-408: every failure rolls back once, returns nullopt
TryAcquireCreate(c, what) ==
    /\ cpc[c] = "t_factory"
    /\ IF what = "valid"
       THEN /\ UnusedResources # {}
            /\ produced' = produced \cup {NewResource}
            /\ cres' = [cres EXCEPT ![c] = NewResource]
            /\ cpc' = [cpc EXCEPT ![c] = "holding"]
            /\ UNCHANGED total_created_
       ELSE /\ IF what = "invalid"
               THEN /\ validator_
                    /\ UnusedResources # {}
                    /\ produced' = produced \cup {NewResource}
               ELSE UNCHANGED produced
            /\ total_created_' = Dec(total_created_)
            /\ \E pcs \in RPNotifyOne(cpc) : cpc' = [pcs EXCEPT ![c] = "idle"]
            /\ UNCHANGED cres
    /\ UNCHANGED <<available_, shutdown_, destroyed, swait, pool_life,
                   wpvars, hvars, lvars, spvars, late>>

\* ReturnResource without the shutdown_ test of line 573
ReturnResourceRepools(c, valid) ==
    /\ cpc[c] = "holding"
    /\ pool_life = "alive"
    /\ IF ~(IF config_.validate_on_return /\ validator_
                         THEN valid ELSE TRUE)
       THEN /\ total_created_' = Dec(total_created_)
            \* lines 591-597: destroyer_ on to_destroy, outside the mutex
            /\ destroyed' = IF destroyer_
                            THEN [destroyed EXCEPT ![cres[c]] = @ + 1]
                            ELSE destroyed
            /\ UNCHANGED available_
       ELSE /\ available_' = Append(available_, cres[c])
            /\ UNCHANGED <<total_created_, destroyed>>
    /\ cres' = [cres EXCEPT ![c] = 0]
    /\ \E pcs \in RPNotifyOne(cpc) : cpc' = [pcs EXCEPT ![c] = "idle"]
    /\ UNCHANGED <<shutdown_, produced, swait, pool_life, wpvars, hvars,
                   lvars, spvars, late>>

\* ReturnResource that does not consult the validator
ReturnResourceUnvalidated(c, valid) ==
    /\ cpc[c] = "holding"
    /\ pool_life = "alive"
    /\ IF shutdown_
       THEN /\ total_created_' = Dec(total_created_)
            /\ destroyed' = IF destroyer_
                            THEN [destroyed EXCEPT ![cres[c]] = @ + 1]
                            ELSE destroyed
            /\ UNCHANGED available_
       ELSE /\ available_' = Append(available_, cres[c])
            /\ UNCHANGED <<total_created_, destroyed>>
    /\ cres' = [cres EXCEPT ![c] = 0]
    /\ \E pcs \in RPNotifyOne(cpc) : cpc' = [pcs EXCEPT ![c] = "idle"]
    /\ UNCHANGED <<shutdown_, produced, swait, pool_life, wpvars, hvars,
                   lvars, spvars, late>>

\* ResourceHandle::release / ~ResourceHandle -> returnResource, lines 552-601
ReturnResource(c, valid) ==
    /\ cpc[c] = "holding"
    /\ pool_life = "alive"
    /\ IF shutdown_ \/ ~(IF config_.validate_on_return /\ validator_
                         THEN valid ELSE TRUE)
       THEN /\ total_created_' = Dec(total_created_)
            \* lines 591-597: destroyer_ on to_destroy, outside the mutex
            /\ destroyed' = IF destroyer_
                            THEN [destroyed EXCEPT ![cres[c]] = @ + 1]
                            ELSE destroyed
            /\ UNCHANGED available_
       ELSE /\ available_' = Append(available_, cres[c])
            /\ UNCHANGED <<total_created_, destroyed>>
    /\ cres' = [cres EXCEPT ![c] = 0]
    /\ \E pcs \in RPNotifyOne(cpc) : cpc' = [pcs EXCEPT ![c] = "idle"]
    /\ UNCHANGED <<shutdown_, produced, swait, pool_life, wpvars, hvars,
                   lvars, spvars, late>>

\* shutdown, lines 441-478
Shutdown ==
    /\ ~shutdown_
    /\ shutdown_' = TRUE
    /\ available_' = <<>>
    /\ cpc' = RPNotifyAll(cpc)
    \* lines 466-476: destroyer_ on every resource that was idle
    /\ destroyed' = [r \in Resources |->
                       IF destroyer_ /\ \E i \in 1..Len(available_) : available_[i] = r
                       THEN destroyed[r] + 1 ELSE destroyed[r]]
    /\ UNCHANGED <<cres, total_created_, produced, swait, pool_life, wpvars,
                   hvars, lvars, spvars, late>>

\* the resources destroyer_ is called on when the idle vector v is destroyed
DestroyAll(v) ==
    [r \in Resources |->
       IF destroyer_ /\ \E i \in 1..Len(v) : v[i] = r
       THEN destroyed[r] + 1 ELSE destroyed[r]]

\* shutdownAndWait, lines 489-500: with shutdown_ already set it returns the
\* comparison of line 493 at once; otherwise it sets shutdown_, notifies all
\* and enters cv_.wait_until with the predicate of line 502
ShutdownAndWait ==
    /\ swait.pc = "idle"
    /\ IF shutdown_
       THEN /\ swait' = [pc |-> "done", timed_out |-> FALSE,
                         result |-> (Len(available_) = total_created_)]
            /\ UNCHANGED <<shutdown_, cpc>>
       ELSE /\ shutdown_' = TRUE
            /\ cpc' = RPNotifyAll(cpc)
            /\ swait' = [swait EXCEPT !.pc = "wait"]
    /\ UNCHANGED <<available_, total_created_, cres, produced, destroyed,
                   pool_life, wpvars, hvars, lvars, spvars, late>>

\* shutdownAndWait, lines 500-521: wait_until(lock, deadline, pred) returns
\* pred() when the predicate holds at a wakeup or when the deadline has
\* passed (timeout); then the idle resources are moved out and destroyed
ShutdownAndWaitReturn(timeout) ==
    /\ swait.pc = "wait"
    /\ timeout \/ Len(available_) = total_created_
    /\ swait' = [pc |-> "done", timed_out |-> timeout,
                 result |-> (Len(available_) = total_created_)]
    /\ available_' = <<>>
    /\ destroyed' = DestroyAll(available_)
    /\ UNCHANGED <<total_created_, shutdown_, cpc, cres, produced, pool_life,
                   wpvars, hvars, lvars, spvars, late>>

Outcomes == {"throws", "null", "invalid", "valid"}

RPNext ==
    \/ \E c \in Clients : Acquire(c)
    \/ \E c \in Clients, v \in BOOLEAN : AcquireValidated(c, v)
    \/ \E c \in Clients, o \in Outcomes : AcquireCreate(c, o)
    \/ \E c \in Clients : AcquireCatch(c)
    \/ \E c \in Clients : AcquireWoken(c)
    \/ \E c \in Clients : AcquireTimeout(c)
    \/ \E c \in Clients : RPSpurious(c)
    \/ \E c \in Clients : TryAcquire(c)
    \/ \E c \in Clients, v \in BOOLEAN : TryAcquireValidated(c, v)
    \/ \E c \in Clients, o \in Outcomes : TryAcquireCreate(c, o)
    \/ \E c \in Clients, v \in BOOLEAN : ReturnResource(c, v)
    \/ Shutdown
    \/ ShutdownAndWait
    \/ \E t \in BOOLEAN : ShutdownAndWaitReturn(t)

\* a pool of its own: the worker pool stays as constructed
RPSpecInit == WPInit /\ RPInit /\ HIdle /\ LIdle /\ SpIdle

RPSpec == RPSpecInit /\ [][RPNext]_vars

\* ~ResourcePool, lines 213-215: shutdown(), then the members are destroyed.
\* No thread is inside a call on the pool; the threads without a lease make
\* no further call, the leases stay with their holders.
DestroyPool ==
    /\ pool_life = "alive"
    /\ \A c \in Clients : cpc[c] \in {"idle", "holding"}
    /\ swait.pc \in {"idle", "done"}
    /\ pool_life' = "destroyed"
    /\ shutdown_' = TRUE
    /\ available_' = <<>>
    /\ destroyed' = DestroyAll(available_)
    /\ cpc' = [c \in Clients |-> IF cpc[c] = "idle" THEN "gone" ELSE cpc[c]]
    /\ swait' = [swait EXCEPT !.pc = "gone"]
    /\ UNCHANGED <<cres, total_created_, produced, late, wpvars, hvars,
                   lvars, spvars>>

\* ResourceHandle::release / ~ResourceHandle after ~ResourcePool: return_func_
\* captured this (268-270) and calls returnResource on the destroyed object,
\* which reads validator_, locks mutex_ and writes total_created_ (559-575).
\* The behaviour is undefined: the call may run as if the members were still
\* there, or the thread may crash in it.
ReturnToDeadPool(c, outcome) ==
    /\ cpc[c] = "holding"
    /\ pool_life # "alive"
    /\ pool_life' = "used_after_free"
    /\ cres' = [cres EXCEPT ![c] = 0]
    /\ IF outcome = "as_if_alive"
       THEN /\ total_created_' = Dec(total_created_)
            /\ destroyed' = IF destroyer_
                            THEN [destroyed EXCEPT ![cres[c]] = @ + 1]
                            ELSE destroyed
            /\ cpc' = [cpc EXCEPT ![c] = "gone"]
       ELSE /\ cpc' = [cpc EXCEPT ![c] = "crashed"]
            /\ UNCHANGED <<total_created_, destroyed>>
    /\ UNCHANGED <<available_, shutdown_, produced, swait, late, wpvars,
                   hvars, lvars, spvars>>

\* the pool together with its destruction while leases are out
PoolLifeNext ==
    \/ RPNext
    \/ DestroyPool
    \/ \E c \in Clients, o \in {"as_if_alive", "crash"} : ReturnToDeadPool(c, o)

PoolLifeSpec == RPSpecInit /\ [][PoolLifeNext]_vars

\* the steady clock reaches the deadline of an acquire that is in progress
\* (deadline = now + effective_timeout, line 237)
DeadlinePasses(c) ==
    /\ cpc[c] \in {"a_validate", "a_factory", "a_catch", "waiting", "woken"}
    /\ c \notin late
    /\ late' = late \cup {c}
    /\ UNCHANGED <<available_, total_created_, shutdown_, cpc, cres,
                   produced, destroyed, swait, pool_life, wpvars, hvars,
                   lvars, spvars>>

\* the pool with the passing of the acquire deadlines made explicit
DeadlineNext ==
    \/ RPNext
    \/ \E c \in Clients : DeadlinePasses(c)

DeadlineSpec == RPSpecInit /\ [][DeadlineNext]_vars

\* The pool under fair scheduling, without shutdown and without timeouts:
\* a thread inside acquire or tryAcquire that can take a step eventually
\* takes one (the factory and the validator return). Nobody is obliged to
\* call the pool or to give a lease back, and spurious wakeups are not owed.
RPClientStep(c) ==
    \/ \E v \in BOOLEAN : AcquireValidated(c, v)
    \/ \E o \in Outcomes : AcquireCreate(c, o)
    \/ AcquireCatch(c)
    \/ AcquireWoken(c)
    \/ \E v \in BOOLEAN : TryAcquireValidated(c, v)
    \/ \E o \in Outcomes : TryAcquireCreate(c, o)

RPFairNext ==
    \/ \E c \in Clients : Acquire(c)
    \/ \E c \in Clients, v \in BOOLEAN : AcquireValidated(c, v)
    \/ \E c \in Clients, o \in Outcomes : AcquireCreate(c, o)
    \/ \E c \in Clients : AcquireCatch(c)
    \/ \E c \in Clients : AcquireWoken(c)
    \/ \E c \in Clients : RPSpurious(c)
    \/ \E c \in Clients : TryAcquire(c)
    \/ \E c \in Clients, v \in BOOLEAN : TryAcquireValidated(c, v)
    \/ \E c \in Clients, o \in Outcomes : TryAcquireCreate(c, o)
    \/ \E c \in Clients, v \in BOOLEAN : ReturnResource(c, v)

RPFairSpec ==
    /\ RPSpecInit
    /\ [][RPFairNext]_vars
    /\ \A c \in Clients : WF_vars(RPClientStep(c))

\* the slots of the pool that are taken: by a resource that is idle, lent
\* or being validated, or by the reservation of a thread that is inside the
\* construction path of acquire (277-317) or tryAcquire (370-408)
Occupied ==
    Len(available_) +
    Cardinality({c \in Clients : cpc[c] \in {"holding", "a_validate",
                                             "a_factory", "a_catch",
                                             "t_validate", "t_factory"}})


\* ====================================================================
\* resource_pool::ResourceHandle<T> (resource_handle.h 45-128)
\* ====================================================================
NHandles == 4
NLeases == 2

Handles == 1..NHandles
LeaseIds == 1..NLeases

\* a handle without a resource: resource_ == nullptr, return_func_ == nullptr
EmptyHandle == [life |-> "alive", resource_ |-> 0, return_func_ |-> FALSE]

\* storage in which no handle has been constructed yet
NoHandle == [life |-> "none", resource_ |-> 0, return_func_ |-> FALSE]

\* the private constructor, lines 120-124, as called by acquire (268-273):
\* handle l holds borrowed resource l and the pool's return function
HInit ==
    /\ handles = [h \in Handles |->
                    IF h \in LeaseIds
                    THEN [life |-> "alive", resource_ |-> h, return_func_ |-> TRUE]
                    ELSE NoHandle]
    /\ returned = [l \in LeaseIds |-> 0]

\* the calls of the return function after release() on a handle in state hd,
\* lines 109-114
ReleasedCount(hd, cnt) ==
    IF hd.resource_ # 0 /\ hd.return_func_
    THEN [cnt EXCEPT ![hd.resource_] = @ + 1]
    ELSE cnt

\* the handle after release(): resource_ was moved into the call and
\* return_func_ reset, or nothing happened
Released(hd) ==
    IF hd.resource_ # 0 /\ hd.return_func_
    THEN [hd EXCEPT !.resource_ = 0, !.return_func_ = FALSE]
    ELSE hd

\* the handle that received resource_ and return_func_ of handle hd by move
MovedFrom(hd) ==
    [life |-> "alive", resource_ |-> hd.resource_, return_func_ |-> hd.return_func_]

\* ResourceHandle() = default, line 47
DefaultConstruct(h) ==
    /\ handles[h].life = "none"
    /\ handles' = [handles EXCEPT ![h] = EmptyHandle]
    /\ UNCHANGED <<returned, wpvars, rpvars, lvars, spvars>>

\* ResourceHandle(ResourceHandle&& other), lines 54-59
MoveConstruct(h, other) ==
    /\ handles[h].life = "none"
    /\ handles[other].life = "alive"
    /\ handles' = [handles EXCEPT ![h] = MovedFrom(handles[other]),
                                  ![other] = EmptyHandle]
    /\ UNCHANGED <<returned, wpvars, rpvars, lvars, spvars>>

\* operator= that takes over without releasing what the handle holds
MoveAssignNoRelease(h, other) ==
    /\ handles[h].life = "alive"
    /\ handles[other].life = "alive"
    /\ IF h = other
       THEN UNCHANGED <<handles, returned>>
       ELSE /\ UNCHANGED returned
            /\ handles' = [handles EXCEPT ![h] = MovedFrom(handles[other]),
                                          ![other] = EmptyHandle]
    /\ UNCHANGED <<wpvars, rpvars, lvars, spvars>>

\* operator=(ResourceHandle&& other), lines 61-69
MoveAssign(h, other) ==
    /\ handles[h].life = "alive"
    /\ handles[other].life = "alive"
    /\ IF h = other
       THEN UNCHANGED <<handles, returned>>
       ELSE /\ returned' = ReleasedCount(handles[h], returned)
            /\ handles' = [handles EXCEPT ![h] = MovedFrom(handles[other]),
                                          ![other] = EmptyHandle]
    /\ UNCHANGED <<wpvars, rpvars, lvars, spvars>>

\* release(), lines 109-114
Release(h) ==
    /\ handles[h].life = "alive"
    /\ returned' = ReleasedCount(handles[h], returned)
    /\ handles' = [handles EXCEPT ![h] = Released(@)]
    /\ UNCHANGED <<wpvars, rpvars, lvars, spvars>>

\* ~ResourceHandle(), lines 71-73
Destroy(h) ==
    /\ handles[h].life = "alive"
    /\ returned' = ReleasedCount(handles[h], returned)
    /\ handles' = [handles EXCEPT ![h] = [Released(@) EXCEPT !.life = "dead"]]
    /\ UNCHANGED <<wpvars, rpvars, lvars, spvars>>

HNext ==
    \/ \E h \in Handles : DefaultConstruct(h)
    \/ \E h, other \in Handles : MoveConstruct(h, other)
    \/ \E h, other \in Handles : MoveAssign(h, other)
    \/ \E h \in Handles : Release(h)
    \/ \E h \in Handles : Destroy(h)

\* handles on their own: both pools stay as constructed
HandleSpecInit == WPInit /\ RPIdle /\ HInit /\ LIdle /\ SpIdle

HandleSpec == HandleSpecInit /\ [][HNext]_vars

\* ====================================================================
\* Where the pools lock and unlock their mutex, and where they call user
\* code (resource_handle.h, WorkerPool.h). A thread walks through a call
\* one lock operation or callback at a time; data-dependent branches are
\* free choices.
\* ====================================================================
NLockThreads == 2

LockThreads == 1..NLockThreads

\* acquire, lines 233-325. Each entry: position, what the code does there
\* ("lock", "unlock", "wait": cv_.wait_until gives the mutex up, "go":
\* nothing on the mutex), next position.
AcquireFlowValidatesLocked ==
    { <<"acq_lock", "lock", "acq_top">>,
      <<"acq_top", "unlock", "idle">>,
      <<"acq_top", "go", "acq_pop">>,
      <<"acq_pop", "go", "acq_validate">>,
      <<"acq_pop", "unlock", "idle">>,
      <<"acq_validate", "go", "acq_checked">>,
      <<"acq_checked", "go", "acq_top">>,
      <<"acq_checked", "unlock", "idle">>,
      <<"acq_top", "unlock", "acq_factory">>,
      <<"acq_factory", "go", "acq_newvalidate">>,
      <<"acq_factory", "go", "acq_catch">>,
      <<"acq_factory", "go", "idle">>,
      <<"acq_newvalidate", "go", "idle">>,
      <<"acq_newvalidate", "lock", "acq_rollback">>,
      <<"acq_rollback", "unlock", "acq_catch">>,
      <<"acq_catch", "lock", "acq_catch_locked">>,
      <<"acq_catch_locked", "unlock", "idle">>,
      <<"acq_top", "wait", "acq_wait">>,
      <<"acq_wait", "lock", "acq_after_wait">>,
      <<"acq_after_wait", "unlock", "idle">>,
      <<"acq_after_wait", "go", "acq_top">> }

AcquireFlow ==
    { <<"acq_lock", "lock", "acq_top">>,          \* 234
      <<"acq_top", "unlock", "idle">>,            \* 240-242 throw, lock destroyed
      <<"acq_top", "go", "acq_pop">>,             \* 244-247
      <<"acq_pop", "unlock", "acq_validate">>,    \* 250-251
      <<"acq_pop", "unlock", "idle">>,            \* 268-273, no validation
      <<"acq_validate", "lock", "acq_checked">>,  \* 252-258, validator_ returned
      <<"acq_checked", "go", "acq_top">>,         \* 260-265 continue
      <<"acq_checked", "unlock", "idle">>,        \* 268-273
      <<"acq_top", "unlock", "acq_factory">>,     \* 277-280
      <<"acq_factory", "go", "acq_newvalidate">>, \* 284-290, factory_ returned
      <<"acq_factory", "go", "acq_catch">>,       \* 284-287 threw or null
      <<"acq_factory", "go", "idle">>,            \* 305-309, no validator
      <<"acq_newvalidate", "go", "idle">>,        \* 291-309, accepted
      <<"acq_newvalidate", "lock", "acq_rollback">>,   \* 297-299
      <<"acq_rollback", "unlock", "acq_catch">>,       \* 300-302 throw
      <<"acq_catch", "lock", "acq_catch_locked">>,     \* 311-313
      <<"acq_catch_locked", "unlock", "idle">>,        \* 314-317
      <<"acq_top", "wait", "acq_wait">>,               \* 321
      <<"acq_wait", "lock", "acq_after_wait">>,        \* 321, wait_until returns
      <<"acq_after_wait", "unlock", "idle">>,          \* 322 throw
      <<"acq_after_wait", "go", "acq_top">> }          \* 324

\* tryAcquire, lines 332-412
TryAcquireFlow ==
    { <<"try_lock", "lock", "try_top">>,          \* 333
      <<"try_top", "unlock", "idle">>,            \* 335-337, 411
      <<"try_top", "go", "try_pop">>,             \* 339-341
      <<"try_pop", "unlock", "try_validate">>,    \* 344-345
      <<"try_pop", "unlock", "idle">>,            \* 362-366, no validation
      <<"try_validate", "lock", "try_rollback">>, \* 346-354 rejected
      <<"try_validate", "lock", "try_relocked">>, \* 346-360 accepted
      <<"try_relocked", "unlock", "idle">>,       \* 362-366
      <<"try_top", "unlock", "try_factory">>,     \* 370-372
      <<"try_factory", "lock", "try_rollback">>,  \* 375-377 null, 403-404 threw
      <<"try_factory", "go", "try_newvalidate">>, \* 383
      <<"try_factory", "go", "idle">>,            \* 397-401, no validator
      <<"try_newvalidate", "lock", "try_rollback">>,   \* 384-391
      <<"try_newvalidate", "go", "idle">>,             \* 397-401
      <<"try_rollback", "unlock", "idle">> }           \* 355-357, 378-380, 392-394, 405-407

\* returnResource, lines 552-601
ReturnResourceFlow ==
    { <<"ret_validate", "go", "ret_lock">>,       \* 559-566, validator_ returned
      <<"ret_lock", "lock", "ret_locked">>,       \* 571
      <<"ret_locked", "unlock", "ret_destroy">>,  \* 573-588
      <<"ret_locked", "unlock", "idle">>,         \* 583-588, 598-600
      <<"ret_destroy", "go", "idle">> }           \* 591-600, destroyer_ returned

\* shutdown, lines 441-478
ShutdownFlow ==
    { <<"shut_lock", "lock", "shut_locked">>,     \* 446
      <<"shut_locked", "unlock", "idle">>,        \* 448-450
      <<"shut_locked", "unlock", "shut_destroy">>,\* 452-460
      <<"shut_destroy", "go", "idle">> }          \* 463-474, destroyer_ returned

\* shutdownAndWait, lines 489-522
ShutdownAndWaitFlow ==
    { <<"sw_lock", "lock", "sw_locked">>,         \* 490
      <<"sw_locked", "unlock", "idle">>,          \* 492-494
      <<"sw_locked", "go", "sw_after">>,          \* 496-504, predicate true at once
      <<"sw_locked", "wait", "sw_wait">>,         \* 496-504
      <<"sw_wait", "lock", "sw_after">>,          \* 502-504, wait_until returns
      <<"sw_after", "unlock", "sw_destroy">>,     \* 506-510
      <<"sw_destroy", "go", "idle">> }            \* 512-521, destroyer_ returned

\* WorkerPool::worker_loop, WorkerPool.h lines 271-321
WorkerLoopFlow ==
    { <<"w_lock", "lock", "w_locked">>,           \* 281
      <<"w_locked", "wait", "w_wait">>,           \* 282
      <<"w_wait", "lock", "w_locked">>,           \* 282, wait returns
      <<"w_locked", "unlock", "idle">>,           \* 284-288 break
      <<"w_locked", "unlock", "w_lock">>,         \* 289-290 continue
      <<"w_locked", "unlock", "w_task">>,         \* 293-305
      <<"w_task", "go", "w_lock">> }              \* 306-313, task() ended

\* the positions in which the thread is inside user code
InFactory == {"acq_factory", "try_factory"}
InValidator ==
    {"acq_validate", "acq_newvalidate", "try_validate", "try_newvalidate",
     "ret_validate"}
InDestroyer == {"ret_destroy", "shut_destroy", "sw_destroy"}
InTask == {"w_task"}
InCallback == InFactory \cup InValidator \cup InDestroyer \cup InTask

\* the first position of each call
Entries ==
    {"acq_lock", "try_lock", "ret_validate", "ret_lock", "shut_lock",
     "sw_lock", "w_lock"}

\* worker_loop uses the mutex_ of the worker pool, the rest that of the
\* resource pool
MutexOf(pos) == IF pos \in {"w_lock", "w_locked", "w_wait", "w_task"}
                THEN "wp" ELSE "rp"

LInit ==
    /\ lpc = [t \in LockThreads |-> "idle"]
    /\ lowner = [m \in {"rp", "wp"} |-> 0]

\* a thread enters one of the calls
LBegin(t, pos) ==
    /\ lpc[t] = "idle"
    /\ pos \in Entries
    /\ lpc' = [lpc EXCEPT ![t] = pos]
    /\ UNCHANGED <<lowner, wpvars, rpvars, hvars, spvars>>

\* thread t takes the step e of a call: std::mutex::lock blocks while the
\* mutex is owned, unlock and cv wait give it up
Walk(t, e) ==
    LET m == MutexOf(e[1])
    IN /\ lpc[t] = e[1]
       /\ lpc' = [lpc EXCEPT ![t] = e[3]]
       /\ CASE e[2] = "lock" ->
                 /\ lowner[m] = 0
                 /\ lowner' = [lowner EXCEPT ![m] = t]
            [] e[2] \in {"unlock", "wait"} ->
                 /\ lowner[m] = t
                 /\ lowner' = [lowner EXCEPT ![m] = 0]
            [] OTHER -> UNCHANGED lowner
       /\ UNCHANGED <<wpvars, rpvars, hvars, spvars>>

LAcquire(t) ==
    /\ lpc[t] # "idle"
    /\ \E e \in AcquireFlow : Walk(t, e)
LTryAcquire(t) ==
    /\ lpc[t] # "idle"
    /\ \E e \in TryAcquireFlow : Walk(t, e)
LReturnResource(t) ==
    /\ lpc[t] # "idle"
    /\ \E e \in ReturnResourceFlow : Walk(t, e)
LShutdown(t) ==
    /\ lpc[t] # "idle"
    /\ \E e \in ShutdownFlow : Walk(t, e)
LShutdownAndWait(t) ==
    /\ lpc[t] # "idle"
    /\ \E e \in ShutdownAndWaitFlow : Walk(t, e)
LWorkerLoop(t) ==
    /\ lpc[t] # "idle"
    /\ \E e \in WorkerLoopFlow : Walk(t, e)

LNext ==
    \/ \E t \in LockThreads, pos \in Entries : LBegin(t, pos)
    \/ \E t \in LockThreads : LAcquire(t)
    \/ \E t \in LockThreads : LTryAcquire(t)
    \/ \E t \in LockThreads : LReturnResource(t)
    \/ \E t \in LockThreads : LShutdown(t)
    \/ \E t \in LockThreads : LShutdownAndWait(t)
    \/ \E t \in LockThreads : LWorkerLoop(t)

\* the locking of the calls on its own: pools and handles stay as constructed
LockSpecInit == WPInit /\ RPIdle /\ HIdle /\ LInit /\ SpIdle

LockSpec == LockSpecInit /\ [][LNext]_vars

\* ====================================================================
\* resource::ResourcePool<T> (resource_pool.hpp): the pool that hands out
\* std::shared_ptr<T> with a deleter that returns the resource
\* ====================================================================
NSpClients == 4
NSpResources == 3
SpMaxSize == 2
NCycles == 2

SpClients == 1..NSpClients
SpResources == 1..NSpResources

\* the constructor, lines 145-148: max_size 0 becomes 1; a validator is set
max_size_ == IF SpMaxSize = 0 THEN 1 ELSE SpMaxSize
sp_validator_ == TRUE

\* the resources that exist: idle, or in a client's hands
SpLive ==
    {idle_[i] : i \in 1..Len(idle_)} \cup
    {shres[c] : c \in {d \in SpClients : shres[d] # 0}}
SpUnused == SpResources \ SpLive
SpNew == CHOOSE r \in SpUnused : \A u \in SpUnused : r <= u

\* cv_.notify_one() / cv_.notify_all()
SpNotifyOne(pcs) ==
    LET ws == {c \in SpClients : pcs[c] = "s_waiting"}
    IN IF ws = {} THEN {pcs} ELSE {[pcs EXCEPT ![c] = "s_woken"] : c \in ws}
SpNotifyAll(pcs) ==
    [c \in SpClients |-> IF pcs[c] = "s_waiting" THEN "s_woken" ELSE pcs[c]]

\* create(), lines 57-65, and the private constructor: an empty pool
SpInit ==
    /\ idle_ = <<>>
    /\ total_ = 0
    /\ shutting_down_ = FALSE
    /\ shpc = [c \in SpClients |-> "idle"]
    /\ shkind = [c \in SpClients |-> "none"]
    /\ shres = [c \in SpClients |-> 0]
    /\ cycles = [c \in SpClients |-> NCycles]

\* the predicate of cv_.wait / cv_.wait_until, lines 296 and 298
SpWaitPred == shutting_down_ \/ idle_ # <<>> \/ total_ < max_size_

\* make_shared_from_idle_locked lines 179-189, with mtx_ held and idle_
\* non-empty: pop the back; without a validator the resource is handed out
\* (make_shared_from_unique_unlocked), with one the mutex is released for it
SpPopIdle(c, kind) ==
    /\ shres' = [shres EXCEPT ![c] = idle_[Len(idle_)]]
    /\ idle_' = SubSeq(idle_, 1, Len(idle_) - 1)
    /\ IF sp_validator_
       THEN /\ shpc' = [shpc EXCEPT ![c] = "s_validate"]
            /\ shkind' = [shkind EXCEPT ![c] = kind]
       ELSE /\ shpc' = [shpc EXCEPT ![c] = "holding"]
            /\ shkind' = [shkind EXCEPT ![c] = "none"]
    /\ UNCHANGED total_

\* lines 289-292, 114-118, 224-227: reserve a slot and leave the mutex to
\* call the factory
SpReserve(c, kind) ==
    /\ total_' = Inc(total_)
    /\ shpc' = [shpc EXCEPT ![c] = "s_factory"]
    /\ shkind' = [shkind EXCEPT ![c] = kind]
    /\ UNCHANGED <<idle_, shres>>

\* a call ends without a resource: "ret_null" (nullptr) or "ret_throw"
SpEnd(c, kind, how, pcs) ==
    /\ shpc' = [pcs EXCEPT ![c] = how]
    /\ shkind' = [shkind EXCEPT ![c] = kind]
    /\ shres' = [shres EXCEPT ![c] = 0]

\* acquire_until lines 281-304, one pass of the loop with mtx_ held, up to
\* the wait
SpLoop(c, kind) ==
    IF shutting_down_
    THEN SpEnd(c, kind, "ret_throw", shpc) /\ UNCHANGED <<idle_, total_>>
    ELSE IF idle_ # <<>>
    THEN SpPopIdle(c, kind)
    ELSE IF total_ < max_size_
    THEN SpReserve(c, kind)
    ELSE /\ shpc' = [shpc EXCEPT ![c] = "s_waiting"]
         /\ shkind' = [shkind EXCEPT ![c] = kind]
         /\ UNCHANGED <<idle_, total_, shres>>

\* acquire() (line 75-77: no deadline) or acquire_for / acquire_until with
\* a deadline (lines 80-104), entering acquire_until at 278
SpAcquire(c, kind) ==
    /\ shpc[c] = "idle"
    /\ kind \in {"acquire", "timed"}
    /\ SpLoop(c, kind)
    /\ UNCHANGED <<shutting_down_, cycles, wpvars, rpvars, hvars, lvars>>

\* one cycle of a thread that acquires with unbounded wait and releases,
\* NCycles times
SpCycle(c) ==
    /\ cycles[c] < NCycles
    /\ SpAcquire(c, "acquire")

\* cv_.wait(lk, pred), line 296, and cv_.wait_until(lk, deadline, pred), line
\* 298, after a wake-up: with the predicate true the loop goes round with
\* the mutex held, with it false the thread waits again
SpWoken(c) ==
    /\ shpc[c] = "s_woken"
    /\ IF SpWaitPred
       THEN SpLoop(c, shkind[c])
       ELSE /\ shpc' = [shpc EXCEPT ![c] = "s_waiting"]
            /\ UNCHANGED <<idle_, total_, shres, shkind>>
    /\ UNCHANGED <<shutting_down_, cycles, wpvars, rpvars, hvars, lvars>>

\* a spurious wake-up of a waiter
SpSpurious(c) ==
    /\ shpc[c] = "s_waiting"
    /\ shpc' = [shpc EXCEPT ![c] = "s_woken"]
    /\ UNCHANGED <<idle_, total_, shutting_down_, shres, shkind, cycles,
                   wpvars, rpvars, hvars, lvars>>

\* cv_.wait_until lines 298-303 when the deadline passes: it returns the
\* predicate; true continues the loop, false returns nullptr
SpTimeout(c) ==
    /\ shpc[c] \in {"s_waiting", "s_woken"}
    /\ shkind[c] = "timed"
    /\ IF SpWaitPred
       THEN SpLoop(c, "timed")
       ELSE SpEnd(c, "timed", "ret_null", shpc) /\ UNCHANGED <<idle_, total_>>
    /\ UNCHANGED <<shutting_down_, cycles, wpvars, rpvars, hvars, lvars>>

\* try_acquire, lines 107-121
SpTryAcquire(c) ==
    /\ shpc[c] = "idle"
    /\ IF shutting_down_
       THEN SpEnd(c, "try", "ret_null", shpc) /\ UNCHANGED <<idle_, total_>>
       ELSE IF idle_ # <<>>
       THEN SpPopIdle(c, "try")
       ELSE IF total_ < max_size_
       THEN SpReserve(c, "try")
       ELSE SpEnd(c, "try", "ret_null", shpc) /\ UNCHANGED <<idle_, total_>>
    /\ UNCHANGED <<shutting_down_, cycles, wpvars, rpvars, hvars, lvars>>

\* make_shared_from_idle_locked lines 190-218: the validator has answered
\* ok; the mutex is taken again. Shut down meanwhile: the resource is
\* dropped, total_ decremented, nullptr returned. ok: the resource is handed
\* out. Not ok: total_ decremented, the mutex released to destroy the
\* resource and notify
SpValidated(c, ok) ==
    /\ shpc[c] = "s_validate"
    /\ IF shutting_down_
       THEN /\ total_' = Dec(total_)
            /\ \E pcs \in SpNotifyOne(shpc) :
                  SpEnd(c, shkind[c], "ret_null", pcs)
       ELSE IF ok
       THEN /\ shpc' = [shpc EXCEPT ![c] = "holding"]
            /\ shkind' = [shkind EXCEPT ![c] = "none"]
            /\ UNCHANGED <<total_, shres>>
       ELSE /\ total_' = Dec(total_)
            /\ shres' = [shres EXCEPT ![c] = 0]
            /\ \E pcs \in SpNotifyOne(shpc) :
                  shpc' = [pcs EXCEPT ![c] = "s_retry"]
            /\ UNCHANGED shkind
    /\ UNCHANGED <<idle_, shutting_down_, cycles, wpvars, rpvars, hvars,
                   lvars>>

\* make_shared_from_idle_locked lines 219-229: after the rejected resource
\* is gone the mutex is taken again: the next idle resource, or a new one
\* if there is room, or nullptr
SpRetry(c) ==
    /\ shpc[c] = "s_retry"
    /\ IF idle_ # <<>>
       THEN SpPopIdle(c, shkind[c])
       ELSE IF total_ < max_size_
       THEN SpReserve(c, shkind[c])
       ELSE SpEnd(c, shkind[c], "ret_null", shpc) /\ UNCHANGED <<idle_, total_>>
    /\ UNCHANGED <<shutting_down_, cycles, wpvars, rpvars, hvars, lvars>>

\* make_shared_from_factory, lines 233-276: the factory throws, returns
\* null, or the validator rejects what it made: total_ is decremented under
\* the mutex, one waiter notified, and the call throws; otherwise the new
\* resource is handed out
SpFactory(c, what) ==
    /\ shpc[c] = "s_factory"
    /\ what \in {"throws", "null", "invalid", "valid"}
    /\ IF what = "valid"
       THEN /\ SpUnused # {}
            /\ shres' = [shres EXCEPT ![c] = SpNew]
            /\ shpc' = [shpc EXCEPT ![c] = "holding"]
            /\ shkind' = [shkind EXCEPT ![c] = "none"]
            /\ UNCHANGED total_
       ELSE /\ total_' = Dec(total_)
            /\ \E pcs \in SpNotifyOne(shpc) :
                  SpEnd(c, shkind[c], "ret_throw", pcs)
    /\ UNCHANGED <<idle_, shutting_down_, cycles, wpvars, rpvars, hvars,
                   lvars>>

\* the caller has received nullptr or the exception
SpReturn(c) ==
    /\ shpc[c] \in {"ret_null", "ret_throw"}
    /\ shpc' = [shpc EXCEPT ![c] = "idle"]
    /\ shkind' = [shkind EXCEPT ![c] = "none"]
    /\ UNCHANGED <<idle_, total_, shutting_down_, shres, cycles, wpvars,
                   rpvars, hvars, lvars>>

\* release_raw without the cv_.notify_one() of line 338
SpReleaseRawSilent(c, valid) ==
    /\ shpc[c] = "holding"
    /\ IF shutting_down_ \/ ~valid
       THEN /\ total_' = Dec(total_)
            /\ UNCHANGED idle_
       ELSE /\ idle_' = Append(idle_, shres[c])
            /\ UNCHANGED total_
    /\ shres' = [shres EXCEPT ![c] = 0]
    /\ shpc' = [shpc EXCEPT ![c] = "idle"]
    /\ cycles' = [cycles EXCEPT ![c] = IF @ < NCycles THEN @ + 1 ELSE @]
    /\ UNCHANGED <<shutting_down_, shkind, wpvars, rpvars, hvars, lvars>>

\* the last shared_ptr goes away: Deleter lines 154-158 with the pool alive,
\* release_raw lines 309-339; valid is the validator's answer
SpReleaseRaw(c, valid) ==
    /\ shpc[c] = "holding"
    /\ IF shutting_down_ \/ ~valid
       THEN /\ total_' = Dec(total_)
            /\ UNCHANGED idle_
       ELSE /\ idle_' = Append(idle_, shres[c])
            /\ UNCHANGED total_
    /\ shres' = [shres EXCEPT ![c] = 0]
    /\ \E pcs \in SpNotifyOne(shpc) : shpc' = [pcs EXCEPT ![c] = "idle"]
    /\ cycles' = [cycles EXCEPT ![c] = IF @ < NCycles THEN @ + 1 ELSE @]
    /\ UNCHANGED <<shutting_down_, shkind, wpvars, rpvars, hvars, lvars>>

\* shutdown, lines 125-136
SpShutdown ==
    /\ ~shutting_down_
    /\ shutting_down_' = TRUE
    /\ idle_' = <<>>
    /\ shpc' = SpNotifyAll(shpc)
    /\ UNCHANGED <<total_, shres, shkind, cycles, wpvars, rpvars, hvars,
                   lvars>>

SpNext ==
    \/ \E c \in SpClients, k \in {"acquire", "timed"} : SpAcquire(c, k)
    \/ \E c \in SpClients : SpWoken(c)
    \/ \E c \in SpClients : SpSpurious(c)
    \/ \E c \in SpClients : SpTimeout(c)
    \/ \E c \in SpClients : SpTryAcquire(c)
    \/ \E c \in SpClients, ok \in BOOLEAN : SpValidated(c, ok)
    \/ \E c \in SpClients : SpRetry(c)
    \/ \E c \in SpClients,
          what \in {"throws", "null", "invalid", "valid"} : SpFactory(c, what)
    \/ \E c \in SpClients : SpReturn(c)
    \/ \E c \in SpClients, valid \in BOOLEAN : SpReleaseRaw(c, valid)
    \/ SpShutdown

SpSpecInit == WPInit /\ RPIdle /\ HIdle /\ LIdle /\ SpInit
SpSpec == SpSpecInit /\ [][SpNext]_vars

\* K threads, each NCycles times acquire() and release, nothing else: no
\* shutdown, no deadline, and a validator and a factory that do not fail
SpCycleStep(c) ==
    \/ SpCycle(c)
    \/ SpWoken(c)
    \/ SpValidated(c, TRUE)
    \/ SpFactory(c, "valid")
    \/ SpReleaseRaw(c, TRUE)
SpCycleNext ==
    \/ \E c \in SpClients : SpCycle(c)
    \/ \E c \in SpClients : SpWoken(c)
    \/ \E c \in SpClients : SpSpurious(c)
    \/ \E c \in SpClients : SpValidated(c, TRUE)
    \/ \E c \in SpClients : SpFactory(c, "valid")
    \/ \E c \in SpClients : SpReleaseRaw(c, TRUE)
SpCycleInit ==
    /\ WPInit /\ RPIdle /\ HIdle /\ LIdle
    /\ idle_ = <<>>
    /\ total_ = 0
    /\ shutting_down_ = FALSE
    /\ shpc = [c \in SpClients |-> "idle"]
    /\ shkind = [c \in SpClients |-> "none"]
    /\ shres = [c \in SpClients |-> 0]
    /\ cycles = [c \in SpClients |-> 0]
SpCycleSpec ==
    /\ SpCycleInit
    /\ [][SpCycleNext]_vars
    /\ \A c \in SpClients : WF_vars(SpCycleStep(c))

\* ====================================================================
\* Properties
\* ====================================================================
WinnerReturned(drain) ==
    \E s \in Stoppers : swin[s] /\ sdrain[s] = drain /\ spc[s] = "ret"
Accepted(t) == tstate[t] \in {"queued", "taken", "running", "done", "dropped"}
Done == {t \in Tasks : tstate[t] = "done"}

\* C1: at no time do more than P user tasks execute, and the active counter
\* never exceeds P.
C1_ParallelismCap ==
    /\ active_ <= options_.parallelism
    /\ Cardinality({w \in Workers : wpc[w] = "run"}) <= options_.parallelism
C1_Witness ==
    /\ active_ = options_.parallelism
    /\ permits_ = 0
    /\ \E w \in Workers : wpc[w] = "permit"

\* C2: the number of outstanding leases of the handle-based pool never
\* exceeds max_size.
C2_BoundedCapacity == Cardinality(Leases) <= config_.max_size

\* C3: |idle| <= total_created <= max_size in every state of the
\* handle-based pool (total_created neither underflows nor overshoots).
C3_CounterInvariant ==
    /\ Len(available_) <= total_created_
    /\ total_created_ <= config_.max_size

\* C4: no accepted task runs twice, and when the shutdown call that set the
\* flag with drain = true returns, every accepted task has run exactly once.
C4_ExactlyOnceUnderDrain ==
    /\ \A t \in Tasks : execs[t] <= 1
    /\ WinnerReturned(TRUE) =>
          \A t \in Tasks : Accepted(t) => tstate[t] = "done" /\ execs[t] = 1
C4_Witness ==
    /\ WinnerReturned(TRUE)
    /\ enq_after_stop
    /\ Done # {}

\* C5: a task cleared from the queue by shutdown(false) never runs; when that
\* shutdown returns, exactly the tasks dequeued before the clear have run to
\* completion (one task, if only the head had been dequeued).
C5_DropOnShutdown ==
    /\ \A t \in Tasks : tstate[t] = "dropped" => execs[t] = 0
    /\ WinnerReturned(FALSE) =>
          /\ \A t \in Tasks : tstate[t] \notin {"queued", "taken", "running"}
          /\ Cardinality(Done) = taken_at_clear
C5_Witness ==
    /\ WinnerReturned(FALSE)
    /\ taken_at_clear = 1
    /\ Cardinality(Done) = 1
    /\ \E t \in Tasks : tstate[t] = "dropped"

\* C6: once is_stopping_ is set, no task is appended to the queue.
C6_NoEnqueueAfterStopping ==
    [][is_stopping_ => Len(queue_') <= Len(queue_)]_vars

\* C7: a try_post, post or submit that starts after a shutdown call has
\* returned is rejected at once: the caller never gets past its first check,
\* no task comes into being and nothing is appended to the queue.
C7_RejectAfterShutdown ==
    [][AnyShutdownReturned =>
          /\ \A p \in Producers : ppc[p] = "idle" => ppc'[p] = "idle"
          /\ \A t \in Tasks : tstate[t] = "new" => tstate'[t] = "new"]_vars
C7_Witness == late_reject

\* C8: with max_queue = M > 0 the queue never holds more than M tasks.
C8_QueueBound ==
    options_.max_queue > 0 => Len(queue_) <= options_.max_queue
C8_Witness ==
    /\ options_.max_queue > 0
    /\ Len(queue_) = options_.max_queue
    /\ \E p \in Producers : ppc[p] = "wait"

\* C9: a post leaves space_cv_.wait only when the queue has room or the pool
\* is stopping; and, under fair scheduling, a blocked post's task is
\* eventually executed unless the pool starts stopping.
C9_Backpressure ==
    /\ [][\A p \in Producers :
            (ppc[p] = "pred" /\ ppc'[p] = "chk") =>
               (is_stopping_ \/ Len(queue_) < options_.max_queue)]_vars
    /\ \A t \in Tasks : BlockedTask(t) ~> (is_stopping_ \/ tstate[t] = "done")
C9_Witness ==
    /\ blocked_accepted
    /\ ~is_stopping_
    /\ \A t \in Tasks : tstate[t] = "done"

\* C10: a post that was waiting for queue space when shutdown set the flag
\* never enqueues its task, the task never runs, and under fair scheduling
\* the post returns false.
C10_BlockedProducersReleased ==
    /\ [](\A t \in blocked_at_stop :
            tstate[t] \in {"blocked", "new"} /\ execs[t] = 0)
    /\ \A t \in Tasks : (t \in blocked_at_stop) ~> (tstate[t] = "new")
C10_Witness ==
    /\ blocked_at_stop # {}
    /\ \A t \in blocked_at_stop : tstate[t] = "new"
    /\ \A p \in Producers : ppc[p] = "idle"

\* C11: try_post never waits for queue space; it is accepted exactly when, as
\* it inspects the queue under mutex_, the flag it loaded is clear and the
\* queue is unbounded or below max_queue; accepted, its task becomes the tail
\* of the queue; rejected, the queue is unchanged and the task has not run.
C11_TryPost ==
    /\ [](\A p \in Producers :
            pkind[p] = "try_post" => ppc[p] \in {"lock", "enq"})
    /\ [][\A p \in Producers :
            (pkind[p] = "try_post" /\ ppc[p] = "lock" /\ ppc'[p] # "lock") =>
               IF ~is_stopping_ /\ (options_.max_queue = 0 \/
                                    Len(queue_) < options_.max_queue)
               THEN ppc'[p] = "enq" /\ queue_' = queue_
               ELSE /\ ppc'[p] = "idle"
                    /\ queue_' = queue_
                    /\ execs[ptask[p]] = 0
                    /\ tstate'[ptask[p]] = "new"]_vars
    /\ [][\A p \in Producers :
            (pkind[p] = "try_post" /\ ppc[p] = "enq" /\ ppc'[p] # "enq") =>
               /\ queue_' = Append(queue_, ptask[p])
               /\ tstate'[ptask[p]] = "queued"]_vars
C11_Witness ==
    /\ \E p \in Producers : pkind[p] = "try_post" /\ ppc[p] = "enq"
    /\ \E p \in Producers : pkind[p] = "try_post" /\ ppc[p] = "lock"
    /\ ~is_stopping_

\* C12: for two tasks A, B that one thread got accepted in that order, B is
\* never removed from the queue by a worker while A has not been; on a pool
\* with one worker thread and parallelism 1, B does not start before A is done.
C12_FifoDequeue ==
    \A p \in Producers : \A i, j \in 1..Len(accepted_by[p]) :
        i < j =>
           /\ accepted_by[p][j] \in Dequeued => accepted_by[p][i] \in Dequeued
           /\ (options_.thread_count = 1 /\ options_.parallelism = 1) =>
                 (tstate[accepted_by[p][j]] \in {"running", "done"} =>
                     tstate[accepted_by[p][i]] = "done")
C12_Witness ==
    /\ options_.thread_count = 1
    /\ options_.parallelism = 1
    /\ \E p \in Producers :
          /\ Len(accepted_by[p]) >= 2
          /\ tstate[accepted_by[p][1]] = "done"
          /\ tstate[accepted_by[p][2]] = "running"

\* C13: whenever a call to shutdown has returned - the first caller's or a
\* concurrent later caller's - every worker thread has exited and no task is
\* held or being executed by a worker.
C13_ShutdownJoinsWorkers ==
    AnyShutdownReturned =>
       /\ \A w \in Workers : wpc[w] = "exit"
       /\ \A t \in Tasks : tstate[t] \notin {"taken", "running"}

\* C14: under fair scheduling, with every started task finishing, a shutdown
\* call that has begun eventually returns; a worker waiting for work once the
\* flag is set is woken and exits; a worker waiting for a permit obtains it.
C14_ShutdownProgress ==
    /\ \A s \in Stoppers : (spc[s] # "idle") ~> (spc[s] = "ret")
    /\ \A w \in Workers : (is_stopping_ /\ wpc[w] = "wait") ~> (wpc[w] = "exit")
    /\ \A w \in Workers : (wpc[w] = "permit") ~> (wpc[w] = "inc")
C14_Witness ==
    /\ \E s \in Stoppers : swin[s] /\ spc[s] = "ret"
    /\ \A w \in Workers : wpc[w] = "exit"
    /\ Done # {}

\* C15: a post / try_post task that raises does not cost the pool a worker:
\* no worker thread is gone before shutdown; the worker that caught the
\* exception decrements active, releases its permit and returns to the
\* dequeue; and under fair scheduling every queued task still gets executed
\* (or is cleared by a shutdown without drain).
C15_WorkerSurvival ==
    /\ [](~is_stopping_ =>
            \A w \in Workers : w <= options_.thread_count => wpc[w] # "exit")
    /\ [][\A w \in Workers :
            (wpc[w] = "catch" /\ wpc'[w] # "catch") =>
               wpc'[w] = "rel" /\ active_' = active_ - 1]_vars
    /\ [][\A w \in Workers :
            (wpc[w] = "rel" /\ wpc'[w] # "rel") =>
               wpc'[w] = "lock" /\ permits_' = permits_ + 1]_vars
    /\ \A t \in Tasks :
          (tstate[t] = "queued") ~> (tstate[t] \in {"done", "dropped"})
C15_Witness ==
    /\ ~is_stopping_
    /\ \E w \in Workers : wpc[w] = "catch"
    /\ \E t \in Tasks : tstate[t] = "queued"

C17_NoResourceLeak ==
    (shutdown_ /\ \A c \in Clients : cpc[c] = "idle") =>
       \A r \in produced : destroyed[r] = 1

\* the resources in the idle vector
Idle(v) == {v[i] : i \in 1..Len(v)}

\* C19: a client that takes an idle resource takes the one at the back of
\* the idle vector, and a resource that goes back to idle goes to the back:
\* the most recently returned resource is the next one handed out.
C19_LifoReuse ==
    /\ [][\A c \in Clients :
            (cres'[c] # cres[c] /\ cres'[c] \in Idle(available_)) =>
               /\ cres'[c] = available_[Len(available_)]
               /\ available_' = SubSeq(available_, 1, Len(available_) - 1)]_vars
    /\ [][\A c \in Clients :
            (cres'[c] # cres[c] /\ cres[c] \in Idle(available_')) =>
               available_' = Append(available_, cres[c])]_vars
C19_Witness ==
    /\ Len(available_) = 1
    /\ \E c \in Clients :
          /\ cpc[c] \in {"a_validate", "t_validate"}
          /\ cres[c] < available_[1]

\* C20: shutdown does not wait for leases and leaves them as they are; a
\* lease released after shutdown has its resource destroyed and
\* total_created decremented by one (size_t arithmetic); and nothing is added
\* to idle once shutdown is set.
C20_ShutdownWithLeases ==
    /\ [](~shutdown_ => ENABLED Shutdown)
    /\ [][(~shutdown_ /\ shutdown_') =>
            /\ cres' = cres
            /\ \A c \in Leases : cpc'[c] = "holding"]_vars
    /\ [][\A c \in Leases :
            (shutdown_ /\ cpc'[c] # "holding") =>
               /\ destroyed' = [destroyed EXCEPT ![cres[c]] = @ + 1]
               /\ total_created_' = Dec(total_created_)
               /\ cres'[c] = 0]_vars
    /\ [][shutdown_ => Idle(available_') \subseteq Idle(available_)]_vars
C20_Witness ==
    /\ shutdown_
    /\ Leases # {}
    /\ total_created_ = Cardinality(Leases)
    /\ \E r \in produced : destroyed[r] = 1

\* C18: whatever release(), moves and destructions are applied to the handles
\* of a lease, the return function is called at most once for the borrowed
\* resource, and exactly once by the time no handle is alive any more.
C18_AtMostOnceReturn ==
    /\ \A l \in LeaseIds : returned[l] <= 1
    /\ (\A h \in Handles : handles[h].life # "alive") =>
          \A l \in LeaseIds : returned[l] = 1
C18_Witness ==
    /\ \A h \in Handles : handles[h].life = "dead"
    /\ \A l \in LeaseIds : returned[l] = 1

\* C21: no acquire or tryAcquire returns a lease once shutdown_ is set: a
\* client becomes the holder of a lease only in a state where shutdown_ is
\* still false.
C21_NothingAfterShutdown ==
    [][\A c \in Clients :
          (cpc[c] # "holding" /\ cpc'[c] = "holding") => ~shutdown_]_vars

\* clients that hold a lease or are inside acquire / tryAcquire with a
\* resource or a reserved slot in their hands
Busy == {c \in Clients : cpc[c] \notin {"idle", "waiting", "woken"}}

\* C22: shutdownAndWait returns true exactly when nothing is outstanding at
\* its return, and false only after its timeout elapsed with something
\* still outstanding - also when shutdown() was called before it.
C22_ShutdownAndWaitResult ==
    [][(swait.pc # "done" /\ swait'.pc = "done") =>
          /\ swait'.result <=> (Busy = {})
          /\ ~swait'.result => (swait'.timed_out /\ Busy # {})]_vars

\* C23: an acquire whose factory throws or returns null, or whose new
\* resource the validator rejects, takes its reservation back exactly once
\* and leaves idle alone: of the two steps of the failing call after the
\* reservation (the failure inside the try block, then the handler that
\* propagates it) exactly the last one decrements total_created, by one.
C23_FailureRollback ==
    [][\A c \in Clients :
          /\ (cpc[c] = "a_factory" /\ cpc'[c] = "a_catch") =>
                total_created_' = total_created_ /\ available_' = available_
          /\ (cpc[c] = "a_catch" /\ cpc'[c] = "idle") =>
                total_created_' = Dec(total_created_) /\ available_' = available_]_vars

\* the step in which the acquire of client c learns that the validator
\* rejected the idle resource it popped
RejectsPopped(c) ==
    /\ cpc[c] = "a_validate"
    /\ cpc'[c] # "holding"
    /\ (cpc'[c] # "a_validate" \/ cres'[c] # cres[c])

\* C24: when the validator rejects the idle resource an acquire popped, the
\* resource is gone (nobody holds it, it is not idle), total_created was
\* decremented once for it, and unless the pool is shut down the same call
\* goes on with another idle resource or with the construction of a new one:
\* it does not wait.
C24_ValidatorReplacement ==
    [][\A c \in Clients : RejectsPopped(c) =>
          /\ cres[c] \notin Idle(available_')
          /\ \A d \in Clients : cres'[d] # cres[c]
          /\ total_created_' = IF cpc'[c] = "a_factory"
                               THEN Inc(Dec(total_created_))
                               ELSE Dec(total_created_)
          /\ ~shutdown_ =>
                \/ cpc'[c] = "a_factory"
                \/ cpc'[c] = "a_validate" /\ cres'[c] \in Idle(available_)]_vars

\* C25: a thread that is inside the factory, the validator, the destroyer or
\* a submitted task owns no pool mutex, and a thread that unlocks or waits
\* owns the mutex it gives up.
C25_NoMutexAcrossCallbacks ==
    /\ [](\A t \in LockThreads :
            lpc[t] \in InCallback => (lowner.rp # t /\ lowner.wp # t))
    /\ [][\A t \in LockThreads, m \in {"rp", "wp"} :
            (lowner[m] = t /\ lowner'[m] # t) => lpc'[t] # lpc[t]]_vars
C25_Witness ==
    /\ lpc[1] = "acq_factory"
    /\ lpc[2] = "acq_factory"

\* C26: a lease that is released or destroyed after its pool was destroyed
\* makes no call into the destroyed pool object.
C26_LeaseOutlivesPool == pool_life # "used_after_free"


\* C27: K = NSpClients threads each run NCycles cycles of acquire() (no
\* deadline) and release on a pool of max_size K/2, with no shutdown and no
\* validator or factory failure. Under weak fairness of every thread's
\* steps all K * NCycles cycles complete, and every thread that waits gets a
\* resource.
C27_CyclesComplete ==
    /\ <>[](\A c \in SpClients : cycles[c] = NCycles /\ shpc[c] = "idle")
    /\ \A c \in SpClients :
          (shpc[c] \in {"s_waiting", "s_woken"}) ~> (shpc[c] = "holding")

\* two threads wait while both resources are out and a cycle has been
\* completed already
C27_Witness ==
    /\ total_ = max_size_
    /\ idle_ = <<>>
    /\ Cardinality({c \in SpClients : shpc[c] = "s_waiting"}) = 2
    /\ \E c \in SpClients : cycles[c] >= 1


\* C28: an acquire whose deadline has passed does not go on: after a
\* validator rejection it ends instead of taking the next idle resource or
\* a slot, and it does not go back to waiting; an acquire that ends from its
\* wait (the timeout failure) leaves idle and total_created as they are.
C28_AcquireDeadline ==
    [][\A c \in Clients :
          /\ (c \in late /\ RejectsPopped(c)) =>
                /\ cpc'[c] = "idle"
                /\ available_' = available_
                /\ total_created_' = Dec(total_created_)
          /\ (c \in late /\ cpc[c] = "woken" /\ cpc'[c] # "woken") =>
                cpc'[c] # "waiting"
          /\ (cpc[c] \in {"waiting", "woken"} /\ cpc'[c] = "idle") =>
                /\ available_' = available_
                /\ total_created_' = total_created_]_vars


\* C29: tryAcquire decides as acquire does, short of waiting: a tryAcquire
\* that has had an idle resource rejected by the validator returns empty
\* only if the pool is shut down or acquire's loop would have reached its
\* wait from there (no idle resource left and no free slot).
C29_TryAcquireLikeAcquire ==
    [][\A c \in Clients :
          (cpc[c] = "t_validate" /\ cpc'[c] = "idle") =>
             \/ shutdown_
             \/ /\ available_ = <<>>
                /\ ~(Dec(total_created_) < config_.max_size)]_vars


\* C30: whenever no acquire, release or shutdownAndWait is in progress,
\* total_created_ is the number of idle resources plus the number of leases
\* that are out, also after shutdown(); and it is 0 once the pool is shut
\* down and every lease is back.
C30_LiveAccounting ==
    ((\A c \in Clients : cpc[c] \in {"idle", "holding"}) /\ swait.pc # "wait")
       => /\ total_created_ = Len(available_) + Cardinality(Leases)
          /\ (shutdown_ /\ Leases = {}) => total_created_ = 0


\* C31: in the shared_ptr pool an acquire() without deadline never returns
\* nullptr, and acquire_for / acquire_until return nullptr only from the
\* wait whose deadline has passed.
C31_BlockingAcquireNeverNull ==
    [][\A c \in SpClients :
          (shpc[c] # "ret_null" /\ shpc'[c] = "ret_null"
             /\ shkind'[c] \in {"acquire", "timed"}) =>
             /\ shkind'[c] = "timed"
             /\ shpc[c] \in {"s_waiting", "s_woken"}]_vars


\* C32: try_acquire of the shared_ptr pool never ends with an exception,
\* whatever the factory and the validator do.
C32_TryAcquireNoThrow ==
    \A c \in SpClients : ~(shkind[c] = "try" /\ shpc[c] = "ret_throw")


\* C33: a task that a worker has dequeued is never dropped: from "taken" it
\* only goes on to run, it runs at most once, and a task that is dequeued
\* and waits for its permit when shutdown(false) clears the queue is run to
\* completion exactly once.
C33_DequeuedSurviveDrop ==
    /\ [][\A t \in Tasks :
            tstate[t] = "taken" => tstate'[t] \in {"taken", "running"}]_vars
    /\ [](\A t \in Tasks : execs[t] <= 1)
    /\ \A t \in Tasks :
          (tstate[t] = "taken" /\ \E s \in Stoppers :
                                     spc[s] = "notify" /\ ~sdrain[s])
             ~> (tstate[t] = "done" /\ execs[t] = 1)

\* shutdown(false) has cleared the queue while one task runs and a second,
\* dequeued by the other worker, waits for the permit
C33_Witness ==
    /\ \E s \in Stoppers : spc[s] = "notify" /\ ~sdrain[s]
    /\ \E w, v \in Workers :
          /\ wpc[w] = "permit" /\ tstate[wtask[w]] = "taken"
          /\ wpc[v] = "run" /\ tstate[wtask[v]] = "running"


\* C34: at most one shutdown call sets the stopping flag; that call alone
\* writes the drain policy and clears the queue (exactly when its argument
\* is drain = false); every step of any other shutdown call leaves the
\* queue, the flag and the policy as they are.
C34_FirstShutdownWins ==
    /\ [](Cardinality({s \in Stoppers : swin[s]}) <= 1)
    /\ [][\A s \in Stoppers :
            (spc'[s] # spc[s] /\ ~swin'[s]) =>
               /\ spc'[s] = "ret"
               /\ queue_' = queue_
               /\ is_stopping_' = is_stopping_
               /\ drain_on_shutdown_' = drain_on_shutdown_]_vars
    /\ [][\A s \in Stoppers :
            (spc[s] = "clear" /\ spc'[s] # "clear") =>
               /\ swin[s]
               /\ drain_on_shutdown_' = sdrain[s]
               /\ queue_' = IF sdrain[s] THEN queue_ ELSE <<>>]_vars
    /\ [][drain_on_shutdown_' # drain_on_shutdown_ =>
            \E s \in Stoppers : swin[s] /\ spc[s] = "clear"]_vars
    /\ [][is_stopping_ => is_stopping_']_vars

\* the second call, with the opposite drain argument, has returned while
\* the queue the first call (drain = true) left alone still holds a task
C34_Witness ==
    \E s, r \in Stoppers :
       /\ swin[s] /\ sdrain[s] /\ spc[s] \notin {"idle", "clear"}
       /\ ~swin[r] /\ ~sdrain[r] /\ spc[r] = "ret"
       /\ queue_ # <<>>


C36_InvalidOnReturn ==
    [][\A c \in Clients :
          (config_.validate_on_return /\ validator_
              /\ ReturnResource(c, FALSE)) =>
             /\ available_' = available_
             /\ total_created_' = Dec(total_created_)
             /\ destroyed[cres[c]] = 0
             /\ destroyed' = [destroyed EXCEPT ![cres[c]] = 1]
             /\ cpc'[c] = "idle"
             /\ cres'[c] = 0]_vars

\* an invalid resource has been returned to a pool that is not shut down
C36_Witness ==
    /\ ~shutdown_
    /\ \E r \in produced : destroyed[r] = 1 /\ r \notin Idle(available_)
    /\ \A c \in Clients : cpc[c] = "idle"


\* C37: when a slot is freed (total_created_ decremented by a construction
\* rollback, a validator rejection or an invalid return) while acquirers
\* wait, one of them is woken in that step; and an acquirer that is blocked
\* while a slot is free leaves its wait and goes on to reserve the slot
\* (absent shutdown and timeout), unless other threads fill the pool first.
C37_ProgressAfterFreedSlot ==
    /\ [][(total_created_' = Dec(total_created_)
             /\ \E c \in Clients : cpc[c] = "waiting") =>
            \E c \in Clients : cpc[c] = "waiting" /\ cpc'[c] # "waiting"]_vars
    /\ \A c \in Clients :
          (cpc[c] \in {"waiting", "woken"} /\ available_ = <<>>
             /\ Occupied < config_.max_size)
          ~> (cpc[c] \notin {"waiting", "woken"}
                \/ Occupied >= config_.max_size)


\* C38: permits_ plus the number of workers between permits_.acquire() and
\* permits_.release() is the parallelism P in every state; active_ is the
\* number of workers inside task() and never exceeds min(N, P); and with no
\* worker between acquire and release, after tasks that returned or threw,
\* permits_ is P again and active_ is 0.
HoldingPermit ==
    {w \in Workers : wpc[w] \in {"inc", "run", "ptask_value",
                                 "ptask_exception", "catch", "rel"}}
C38_PermitConservation ==
    /\ permits_ + Cardinality(HoldingPermit) = options_.parallelism
    /\ permits_ >= 0
    /\ active_ >= 0
    /\ active_ <= options_.thread_count
    /\ active_ <= options_.parallelism
    /\ active_ <= Cardinality(HoldingPermit)
    /\ HoldingPermit = {} => (permits_ = options_.parallelism /\ active_ = 0)

\* a pool with more permits than threads is idle again after a task that
\* threw and a task that returned
C38_Witness ==
    /\ options_.thread_count < options_.parallelism
    /\ HoldingPermit = {}
    /\ permits_ = options_.parallelism
    /\ \A t \in Tasks : tstate[t] = "done"
    /\ \E t \in Tasks : future[t] = "exception"


\* C39: once a call of shutdown has returned, the future of every task that
\* submit accepted is resolved: it holds the task's value or exception if
\* the task ran, and the broken-promise error if shutdown(false) dropped it.
C39_FuturesResolved ==
    AnyShutdownReturned =>
       \A t \in Tasks :
          (Accepted(t) /\ future[t] # "none") =>
             IF tstate[t] = "dropped"
             THEN future[t] = "broken"
             ELSE future[t] \in {"value", "exception"}

====
